---- MODULE Spec2Model ----
(***************************************************************************)
(* State-machine model of the WebSocket endpoint of lib/WebSocket.js:      *)
(* readyState, the closing handshake, the close timer, the client's HTTP   *)
(* handshake callbacks, the Receiver/Sender event handlers and the send    *)
(* queue used by streamed messages.                                        *)
(*                                                                         *)
(* An endpoint is a record; every handler of the source is an operator    *)
(* from the endpoint before the call to the endpoint after it.  The field  *)
(* out lists, in order, what the handler that ran last did to the outside  *)
(* world: frames handed to the Sender, events emitted, exceptions thrown   *)
(* to the caller and callbacks invoked.                                    *)
(***************************************************************************)
EXTENDS Integers, Sequences, FiniteSets, TLC

VARIABLES ws, peer, net, last, hist, wss, hixie

vars == <<ws, peer, net, last, hist, wss, hixie>>

(***************************************************************************)
(* Ready states (WebSocket.js:94-96)                                       *)
(***************************************************************************)
CONNECTING == 0
OPEN == 1
CLOSING == 2
CLOSED == 3

\* `undefined` as a close code: falsy in `this._closeCode || 1000`
NoCode == 0

\* the code cleanupWebsocketResources forces when no close frame was received
AbnormalClosure == 1006

\* the default of `this._closeCode || 1000`
NormalClosure == 1000

\* the code the Sender 'error' handler closes with
ProtocolError == 1002

(***************************************************************************)
(* Bounds and input sets                                                   *)
(***************************************************************************)
MaxQueue == 1

MaxNet == 2

\* payloads of inbound frames
Data == {"x", "y"}

\* payloads of the user's outbound calls
Payloads == {"m"}

Reasons == {"", "bye"}

\* close codes a user may pass: none, two valid ones, one the Sender rejects
UserCodes == {NoCode, 1000, 4000, 1006}

\* close codes the Receiver reports with an ERROR
ReceiverErrorCodes == {1002, 1009}

\* close codes the Receiver reports with a CLOSE (a frame without payload has none)
PeerCodes == {NoCode, 1000, 4000}

\* the `mask` member of an options object: absent, true or false
MaskOpts == {"undefined", "true", "false"}

\* send and stream calls made in one run of the serialization model
MaxCalls == 3

\* fragments of one streamed message before its final fragment
MaxFrags == 2

\* readable byte sources a user may hand to send (`data instanceof readable`)
Readables == {"r1", "r2", "r3", "r4"}

\* socket chunks that arrive in one run of the upgrade-head model
MaxChunks == 3

\* the outcome of the client's checks of the upgrade response: all passed,
\* or the message of the error that the failed check emits ("invalid
\* protocol" stands for the three sub-protocol messages)
Accept == "ok"

Verdicts == {Accept, "invalid server key", "invalid protocol",
             "invalid extension parameter"}

\* upgradeHead: empty, or the bytes that came with the upgrade
NoHead == ""

Heads == {NoHead, "h"}

\* `null`: the payload of the frame that ends a readable's message
Null == ""

\* the payload the user gives to the handle of stream()
StreamData == "s"

\* no sub-protocol: `undefined`, `null` or the empty string, all falsy
NoProtocol == ""

Protocols == {"p1", "p2"}

\* the parsed Sec-WebSocket-Protocol header of a request: the offered list
Offered == {<<>>, <<"p1">>, <<"p1", "p2">>, <<"p2", "p1">>}

(***************************************************************************)
(* Outputs of a handler                                                    *)
(***************************************************************************)
Frame(op, code, data, mask, fin, given) ==
  [t |-> "frame", op |-> op, code |-> code, data |-> data,
   mask |-> mask, fin |-> fin, given |-> given]

Event(name, code, data) ==
  [t |-> "event", op |-> name, code |-> code, data |-> data,
   mask |-> FALSE, fin |-> FALSE, given |-> "undefined"]

\* an exception that leaves the handler and reaches its caller
Throw ==
  [t |-> "throw", op |-> "not opened", code |-> NoCode, data |-> "",
   mask |-> FALSE, fin |-> FALSE, given |-> "undefined"]

\* a user callback invoked with an error (op = "error") or without (op = "ok")
Callback(res) ==
  [t |-> "cb", op |-> res, code |-> NoCode, data |-> "",
   mask |-> FALSE, fin |-> FALSE, given |-> "undefined"]

Put(w, o) == [w EXCEPT !.out = Append(@, o)]

\* EventEmitter.emit as used by the endpoint; close and open emissions are
\* counted
Emit(w, name, code, data) ==
  LET w1 == Put(w, Event(name, code, data))
  IN IF name = "close" THEN [w1 EXCEPT !.closeEmits = @ + 1]
     ELSE IF name = "open" THEN [w1 EXCEPT !.openEmits = @ + 1]
     ELSE w1

(***************************************************************************)
(* Sender (lib/Sender.js is not part of the sources; modelled from the     *)
(* spec's close-code table and the try/catch around its call)              *)
(***************************************************************************)
ValidCloseCode(code) ==
  \/ code \in 1000..1003
  \/ code \in 1007..1011
  \/ code \in 3000..4999

\* Sender.close throws on a code it cannot put on the wire
SenderCloseThrows(code) == code /= NoCode /\ ~ValidCloseCode(code)

(***************************************************************************)
(* The endpoint after construction                                         *)
(***************************************************************************)
\* WebSocket constructor + initAsClient: CONNECTING, request in flight
NewClient ==
  [isServer |-> FALSE, readyState |-> CONNECTING, socket |-> FALSE,
   socketEnded |-> FALSE, socketDestroyed |-> FALSE,
   closeReceived |-> FALSE, closeCode |-> NoCode, closeMessage |-> "",
   closeTimer |-> FALSE, closeCb |-> FALSE,
   sender |-> FALSE, receiver |-> FALSE, listeners |-> "user",
   hasQueue |-> FALSE, queue |-> <<>>, streamOn |-> FALSE, streamMask |-> "undefined",
   readable |-> Null, readableMask |-> "undefined", readableCb |-> FALSE, tick |-> FALSE,
   dataListener |-> "none", called |-> FALSE, upgradeHead |-> NoHead,
   firstTick |-> FALSE, rcv |-> <<>>, protocol |-> NoProtocol,
   req |-> "pending", closeEmits |-> 0, openEmits |-> 0, out |-> <<>>]

\* establishConnection: attaches socket, Receiver and Sender, listens for
\* socket data with firstHandler and schedules firstHandler on the next
\* tick, OPEN, emits open
establishConnection(w, upgradeHead) ==
  Emit([w EXCEPT !.socket = TRUE, !.receiver = TRUE, !.sender = TRUE,
                 !.dataListener = "first", !.called = FALSE,
                 !.upgradeHead = upgradeHead, !.firstTick = TRUE,
                 !.readyState = OPEN], "open", NoCode, "")

\* WebSocket constructor + initAsServerClient: established synchronously
initAsServerClient(upgradeHead, protocol) ==
  establishConnection([NewClient EXCEPT !.isServer = TRUE, !.req = "none",
                                        !.protocol = protocol],
                      upgradeHead)

NewServerClient == initAsServerClient(NoHead, NoProtocol)

(***************************************************************************)
(* cleanupWebsocketResources / terminate / close                           *)
(***************************************************************************)
cleanupWebsocketResources(w, error) ==
  IF w.readyState = CLOSED THEN w
  ELSE
    LET code == IF error \/ ~w.closeReceived THEN AbnormalClosure ELSE w.closeCode
        w1 == [w EXCEPT !.readyState = CLOSED, !.closeTimer = FALSE, !.closeCode = code]
        w2 == Emit(w1, "close", IF code = NoCode THEN NormalClosure ELSE code,
                   w.closeMessage)
    IN [w2 EXCEPT !.socketEnded = IF w.socket /\ ~error THEN TRUE ELSE @,
                  !.socketDestroyed = IF w.socket /\ error THEN TRUE ELSE @,
                  !.socket = FALSE, !.sender = FALSE, !.receiver = FALSE,
                  !.dataListener = "none",
                  !.listeners = "noop",
                  !.hasQueue = FALSE, !.queue = <<>>]

\* faulty variant: terminate() ends the socket and arms no timer
terminate_noTimer(w, endThrows) ==
  IF w.readyState = CLOSED THEN w
  ELSE IF w.socket THEN
    LET w1 == [w EXCEPT !.readyState = CLOSING]
    IN IF endThrows THEN cleanupWebsocketResources(w1, TRUE)
       ELSE [w1 EXCEPT !.socketEnded = TRUE]
  ELSE IF w.readyState = CONNECTING THEN cleanupWebsocketResources(w, TRUE)
  ELSE w

\* endThrows: socket.end() raised
terminate(w, endThrows) ==
  IF w.readyState = CLOSED THEN w
  ELSE IF w.socket THEN
    LET w1 == [w EXCEPT !.readyState = CLOSING]
    IN IF endThrows THEN cleanupWebsocketResources(w1, TRUE)
       ELSE [w1 EXCEPT !.socketEnded = TRUE, !.closeTimer = TRUE]
  ELSE IF w.readyState = CONNECTING THEN cleanupWebsocketResources(w, TRUE)
  ELSE w

\* faulty variant: close() hands a close frame to the Sender while CLOSING too
close_resends(w, code, data, endThrows) ==
  IF w.readyState = CLOSED THEN w
  ELSE IF w.readyState = CONNECTING THEN [w EXCEPT !.readyState = CLOSED]
  ELSE
    LET w1 == [w EXCEPT !.readyState = CLOSING, !.closeCode = code,
                        !.closeMessage = data]
    IN IF SenderCloseThrows(code) THEN Emit(w1, "error", NoCode, "")
       ELSE [Put(w1, Frame("close", code, data, ~w.isServer, TRUE, "undefined"))
               EXCEPT !.closeCb = TRUE]

\* faulty variant: close() does nothing to an endpoint that is CLOSING
close_closingIgnored(w, code, data, endThrows) ==
  IF w.readyState = CLOSED THEN w
  ELSE IF w.readyState = CONNECTING THEN [w EXCEPT !.readyState = CLOSED]
  ELSE IF w.readyState = CLOSING THEN w
  ELSE
    LET w1 == [w EXCEPT !.readyState = CLOSING, !.closeCode = code,
                        !.closeMessage = data]
    IN IF SenderCloseThrows(code) THEN Emit(w1, "error", NoCode, "")
       ELSE [Put(w1, Frame("close", code, data, ~w.isServer, TRUE, "undefined"))
               EXCEPT !.closeCb = TRUE]

\* faulty variant: close() does nothing to an endpoint that is CONNECTING
close_connectingStays(w, code, data, endThrows) ==
  IF w.readyState = CLOSED \/ w.readyState = CONNECTING THEN w
  ELSE IF w.readyState = CLOSING THEN
    IF w.closeReceived /\ w.isServer THEN terminate(w, endThrows) ELSE w
  ELSE
    LET w1 == [w EXCEPT !.readyState = CLOSING, !.closeCode = code,
                        !.closeMessage = data]
    IN IF SenderCloseThrows(code) THEN Emit(w1, "error", NoCode, "")
       ELSE [Put(w1, Frame("close", code, data, ~w.isServer, TRUE, "undefined"))
               EXCEPT !.closeCb = TRUE]

close(w, code, data, endThrows) ==
  IF w.readyState = CLOSED THEN w
  ELSE IF w.readyState = CONNECTING THEN [w EXCEPT !.readyState = CLOSED]
  ELSE IF w.readyState = CLOSING THEN
    IF w.closeReceived /\ w.isServer THEN terminate(w, endThrows) ELSE w
  ELSE
    LET w1 == [w EXCEPT !.readyState = CLOSING, !.closeCode = code,
                        !.closeMessage = data]
    IN IF SenderCloseThrows(code) THEN Emit(w1, "error", NoCode, "")
       ELSE [Put(w1, Frame("close", code, data, ~w.isServer, TRUE, "undefined"))
               EXCEPT !.closeCb = TRUE]

\* faulty variant: a client ends the socket too once its close frame is written
closeCallback_clientEnds(w, err, endThrows) ==
  LET w1 == IF err THEN Emit(w, "error", NoCode, "") ELSE w
  IN IF w1.closeReceived THEN terminate(w1, endThrows)
     ELSE [w1 EXCEPT !.closeTimer = TRUE]

\* the completion callback handed to Sender.close (WebSocket.js:125-135)
closeCallback(w, err, endThrows) ==
  LET w1 == IF err THEN Emit(w, "error", NoCode, "") ELSE w
  IN IF w1.closeReceived /\ w1.isServer THEN terminate(w1, endThrows)
     ELSE [w1 EXCEPT !.closeTimer = TRUE]

(***************************************************************************)
(* pause / ping / pong / resume / send / stream                            *)
(***************************************************************************)
\* faulty variant: the default follows the role the wrong way round
maskOf_serverMasks(w, optMask) ==
  IF optMask = "undefined" THEN w.isServer ELSE optMask = "true"

\* `if (typeof options.mask === 'undefined') options.mask = !this._isServer`
maskOf(w, optMask) == IF optMask = "undefined" THEN ~w.isServer ELSE optMask = "true"

\* socket.pause() changes the socket, not the endpoint
pause(w) == IF w.readyState /= OPEN THEN Put(w, Throw) ELSE w

resume(w) == IF w.readyState /= OPEN THEN Put(w, Throw) ELSE w

\* faulty variant: only a CLOSED endpoint refuses to ping
ping_closedOnly(w, data, optMask, dontFailWhenClosed) ==
  IF w.readyState = CLOSED \/ w.readyState = CONNECTING
  THEN IF dontFailWhenClosed THEN w ELSE Put(w, Throw)
  ELSE Put(w, Frame("ping", NoCode, data,
                    IF optMask = "undefined" THEN ~w.isServer ELSE optMask = "true",
                    TRUE, optMask))

ping(w, data, optMask, dontFailWhenClosed) ==
  IF w.readyState /= OPEN
  THEN IF dontFailWhenClosed THEN w ELSE Put(w, Throw)
  ELSE Put(w, Frame("ping", NoCode, data, maskOf(w, optMask), TRUE, optMask))

\* faulty variant: dontFailWhenClosed is ignored
pong_alwaysFails(w, data, optMask, dontFailWhenClosed) ==
  IF w.readyState /= OPEN
  THEN Put(w, Throw)
  ELSE Put(w, Frame("pong", NoCode, data,
                    IF optMask = "undefined" THEN ~w.isServer ELSE optMask = "true",
                    TRUE, optMask))

pong(w, data, optMask, dontFailWhenClosed) ==
  IF w.readyState /= OPEN
  THEN IF dontFailWhenClosed THEN w ELSE Put(w, Throw)
  ELSE Put(w, Frame("pong", NoCode, data, maskOf(w, optMask), TRUE, optMask))

\* a call waiting in this._queue
Queued(kind, data, optMask, hasCb) ==
  [kind |-> kind, data |-> data, mask |-> optMask, cb |-> hasCb]

startQueue(w) == IF w.hasQueue THEN w ELSE [w EXCEPT !.hasQueue = TRUE, !.queue = <<>>]

\* faulty variant: a send made while a queue is installed is not enqueued
send_noQueue(w, data, optMask, hasCb) ==
  IF w.readyState /= OPEN
  THEN Put(w, IF hasCb THEN Callback("error") ELSE Throw)
  ELSE IF data \in Readables
  THEN [startQueue(w) EXCEPT !.readable = data, !.readableMask = optMask,
                             !.readableCb = hasCb]
  ELSE Put(w, Frame("message", NoCode, data,
                    IF optMask = "undefined" THEN ~w.isServer ELSE optMask = "true",
                    TRUE, optMask))

\* send of a string or buffer, or of a readable: the readable is attached by
\* sendStream and its events drive readableData and readableEnd
send(w, data, optMask, hasCb) ==
  IF w.readyState /= OPEN
  THEN Put(w, IF hasCb THEN Callback("error") ELSE Throw)
  ELSE IF w.hasQueue
  THEN [w EXCEPT !.queue = Append(@, Queued("send", data, optMask, hasCb))]
  ELSE IF data \in Readables
  THEN [startQueue(w) EXCEPT !.readable = data, !.readableMask = optMask,
                             !.readableCb = hasCb]
  ELSE Put(w, Frame("message", NoCode, data, maskOf(w, optMask), TRUE, optMask))

\* stream(options, cb); the handle `send` given to cb is streamOn
stream(w, optMask, hasCb) ==
  IF ~hasCb THEN Put(w, Throw)
  ELSE IF w.readyState /= OPEN THEN Put(w, Callback("error"))
  ELSE IF w.hasQueue
  THEN [w EXCEPT !.queue = Append(@, Queued("stream", "", optMask, hasCb))]
  ELSE [startQueue(w) EXCEPT !.streamOn = TRUE, !.streamMask = optMask]

Thrown(w) == w.out /= <<>> /\ w.out[Len(w.out)].t = "throw"

\* one queued closure: self.send(data, options, cb) or self.stream(options, cb)
queued(w, item) ==
  IF item.kind = "send" THEN send(w, item.data, item.mask, item.cb)
  ELSE stream(w, item.mask, item.cb)

RECURSIVE replay(_, _)
\* the for loop of executeQueueSends; an exception leaves the loop
replay(w, q) ==
  IF q = <<>> \/ Thrown(w) THEN w
  ELSE replay(queued(w, Head(q)), Tail(q))

\* faulty variant: the queue is replayed last call first
executeQueueSends_reversed(w) ==
  IF ~w.hasQueue THEN w
  ELSE replay([w EXCEPT !.hasQueue = FALSE, !.queue = <<>>],
              [i \in 1..Len(w.queue) |-> w.queue[Len(w.queue) + 1 - i]])

executeQueueSends(w) ==
  IF ~w.hasQueue THEN w
  ELSE replay([w EXCEPT !.hasQueue = FALSE, !.queue = <<>>], w.queue)

\* faulty variant: the final fragment does not replay the queue
streamSend_noReplay(w, data, final) ==
  IF w.readyState /= OPEN
  THEN [Put(w, Callback("error")) EXCEPT !.streamOn = FALSE]
  ELSE
    LET w1 == Put(w, Frame("message", NoCode, data,
                           IF w.streamMask = "undefined" THEN ~w.isServer
                           ELSE w.streamMask = "true",
                           final, w.streamMask))
    IN IF final THEN [w1 EXCEPT !.streamOn = FALSE] ELSE w1

\* the function `send(data, final)` handed to the stream callback
streamSend(w, data, final) ==
  IF w.readyState /= OPEN
  THEN [Put(w, Callback("error")) EXCEPT !.streamOn = FALSE]
  ELSE
    LET w1 == Put(w, Frame("message", NoCode, data, maskOf(w, w.streamMask),
                           final, w.streamMask))
    IN IF final THEN executeQueueSends([w1 EXCEPT !.streamOn = FALSE]) ELSE w1

\* the callback send() hands to sendStream: schedules executeQueueSends on
\* the next tick, then calls the user's callback
sendStreamCb(w, res) ==
  LET w1 == [w EXCEPT !.tick = TRUE]
  IN IF w.readableCb THEN Put(w1, Callback(res)) ELSE w1

\* sendStream, the readable's 'data' event
readableData(w, chunk) ==
  IF w.readyState /= OPEN THEN sendStreamCb(w, "error")
  ELSE Put(w, Frame("message", NoCode, chunk, maskOf(w, w.readableMask),
                    FALSE, w.readableMask))

\* sendStream, the readable's 'end' event; a readable ends once
readableEnd(w) ==
  LET w1 == [w EXCEPT !.readable = Null]
  IN IF w.readyState /= OPEN THEN sendStreamCb(w1, "error")
     ELSE sendStreamCb(Put(w1, Frame("message", NoCode, Null,
                                     maskOf(w, w.readableMask), TRUE,
                                     w.readableMask)), "ok")

\* process.nextTick(function tock () { executeQueueSends(self); })
tock(w) == executeQueueSends([w EXCEPT !.tick = FALSE])

(***************************************************************************)
(* Socket data handlers installed by establishConnection                   *)
(***************************************************************************)
\* `undefined`: firstHandler called by the next tick has no data
NoData == ""

\* self._receiver.add(data)
realHandler(w, data) == [w EXCEPT !.rcv = Append(@, data)]

\* faulty variant: the chunk is pushed before the upgradeHead
firstHandler_dataFirst(w, data) ==
  IF w.called \/ w.readyState = CLOSED THEN w
  ELSE
    LET w1 == [w EXCEPT !.called = TRUE, !.dataListener = "real"]
        w2 == IF data /= NoData THEN [w1 EXCEPT !.rcv = Append(@, data)] ELSE w1
    IN IF w.upgradeHead /= NoHead
       THEN [w2 EXCEPT !.rcv = Append(@, w.upgradeHead), !.upgradeHead = NoHead]
       ELSE w2

\* faulty variant: the handler also runs on an endpoint that is CLOSED
firstHandler_ignoresClosed(w, data) ==
  IF w.called THEN w
  ELSE
    LET w1 == [w EXCEPT !.called = TRUE, !.dataListener = "real"]
        w2 == IF w.upgradeHead /= NoHead
              THEN [realHandler(w1, w.upgradeHead) EXCEPT !.upgradeHead = NoHead]
              ELSE w1
    IN IF data /= NoData THEN realHandler(w2, data) ELSE w2

firstHandler(w, data) ==
  IF w.called \/ w.readyState = CLOSED THEN w
  ELSE
    LET w1 == [w EXCEPT !.called = TRUE, !.dataListener = "real"]
        w2 == IF w.upgradeHead /= NoHead
              THEN [realHandler(w1, w.upgradeHead) EXCEPT !.upgradeHead = NoHead]
              ELSE w1
    IN IF data /= NoData THEN realHandler(w2, data) ELSE w2

(***************************************************************************)
(* Receiver and Sender event handlers installed by establishConnection     *)
(***************************************************************************)
onmessage(w, data) == Emit(w, "message", NoCode, data)

\* faulty variant: the automatic pong is masked like an inbound frame
onping_peerMask(w, data) ==
  Emit(pong(w, data, IF w.isServer THEN "true" ELSE "false", TRUE),
       "ping", NoCode, data)

\* faulty variant: the reply is written as a fragment of a data message
onping_asData(w, data) ==
  Emit(IF w.readyState /= OPEN THEN w
       ELSE Put(w, Frame("message", NoCode, data, ~w.isServer, TRUE,
                         IF w.isServer THEN "false" ELSE "true")),
       "ping", NoCode, data)

onping(w, data) ==
  Emit(pong(w, data, IF w.isServer THEN "false" ELSE "true", TRUE),
       "ping", NoCode, data)

onpong(w, data) == Emit(w, "pong", NoCode, data)

\* faulty variant: the reply does not echo the peer's code and reason
onclose_noEcho(w, code, data, endThrows) ==
  close([w EXCEPT !.closeReceived = TRUE], NoCode, "", endThrows)

onclose(w, code, data, endThrows) ==
  close([w EXCEPT !.closeReceived = TRUE], code, data, endThrows)

\* faulty variant: the error is surfaced before the close frame is requested
onerror_emitFirst(w, errorCode, endThrows) ==
  close(Emit(w, "error", errorCode, ""), errorCode, "", endThrows)

onerror(w, errorCode, endThrows) ==
  Emit(close(w, errorCode, "", endThrows), "error", errorCode, "")

\* this._sender.on('error', ...)
onSenderError(w, endThrows) ==
  Emit(close(w, ProtocolError, "", endThrows), "error", NoCode, "")

(***************************************************************************)
(* Callbacks of the client's HTTP request (initAsClient)                   *)
(***************************************************************************)
\* emit('error') without any listener throws out of the handler
reqError(w) ==
  IF w.listeners = "none" THEN Put(Emit(w, "error", NoCode, ""), Throw)
  ELSE cleanupWebsocketResources(Emit(w, "error", NoCode, ""), TRUE)

\* handled: a listener for 'unexpected-response' exists
reqResponse(w, handled) ==
  LET w0 == [w EXCEPT !.req = "done"]
  IN IF handled THEN cleanupWebsocketResources(w0, FALSE)
     ELSE IF w.listeners = "none" THEN Put(Emit(w0, "error", NoCode, ""), Throw)
     ELSE cleanupWebsocketResources(Emit(w0, "error", NoCode, ""), TRUE)

\* faulty variant: the server key is not checked
reqUpgrade_keyUnchecked(w, verdict, upgradeHead) ==
  LET w0 == [w EXCEPT !.req = "done"]
  IN IF w.readyState = CLOSED
     THEN [Emit(w0, "close", NoCode, "") EXCEPT !.listeners = "none",
                                                !.socketEnded = TRUE]
     ELSE IF verdict \notin {Accept, "invalid server key"}
     THEN [Emit(w0, "error", NoCode, verdict) EXCEPT !.listeners = "none",
                                                     !.socketEnded = TRUE]
     ELSE [Emit([w0 EXCEPT !.socket = TRUE, !.receiver = TRUE, !.sender = TRUE,
                           !.dataListener = "first", !.called = FALSE,
                           !.upgradeHead = upgradeHead, !.firstTick = TRUE,
                           !.readyState = OPEN], "open", NoCode, "")
             EXCEPT !.req = "detached"]

\* faulty variant: the upgrade handler does not look at readyState
reqUpgrade_ignoresClosed(w, verdict, upgradeHead) ==
  LET w0 == [w EXCEPT !.req = "done"]
  IN IF verdict /= Accept
     THEN [Emit(w0, "error", NoCode, verdict) EXCEPT !.listeners = "none",
                                                     !.socketEnded = TRUE]
     ELSE [Emit([w0 EXCEPT !.socket = TRUE, !.receiver = TRUE, !.sender = TRUE,
                           !.dataListener = "first", !.called = FALSE,
                           !.upgradeHead = upgradeHead, !.firstTick = TRUE,
                           !.readyState = OPEN], "open", NoCode, "")
             EXCEPT !.req = "detached"]

\* verdict: the first check of the response that fails (server key, then
\* sub-protocol, then extension parameters), or Accept
reqUpgrade(w, verdict, upgradeHead) ==
  LET w0 == [w EXCEPT !.req = "done"]
  IN IF w.readyState = CLOSED
     THEN [Emit(w0, "close", NoCode, "") EXCEPT !.listeners = "none",
                                                !.socketEnded = TRUE]
     ELSE IF verdict /= Accept
     THEN [Emit(w0, "error", NoCode, verdict) EXCEPT !.listeners = "none",
                                                     !.socketEnded = TRUE]
     ELSE [establishConnection(w0, upgradeHead) EXCEPT !.req = "detached"]

(***************************************************************************)
(* WebSocketServer: the handling of an HTTP upgrade request                *)
(* (lib/WebSocketServer.js).  A server is a record of its options, the     *)
(* number of tracked clients, and for the request handled last: whether    *)
(* its socket was destroyed, the status written, whether the response      *)
(* carries the extension, the innermost step reached and the outputs.      *)
(***************************************************************************)
\* an HTTP response head written to the socket of the request
Response(status) ==
  [t |-> "http", op |-> "response", code |-> status, data |-> "",
   mask |-> FALSE, fin |-> FALSE, given |-> "undefined"]

\* the 101 response; data: its Sec-WebSocket-Protocol header, if any
Switching(protocol) == [Response(101) EXCEPT !.data = protocol]

\* verifyClient: absent, a function of one argument, or of two (asynchronous)
VerifyOpts == {"none", "sync", "async"}

\* no request waits for the answer of verifyClient
NoRequest == <<>>

\* server: an http server is attached and its 'upgrade' events are listened
\* to; protocol: the protocol option of the WebSocket created last;
\* pending: the request whose verifyClient callback has not been called
NewServer(perMessageDeflate, verifyClient, handleProtocols, clientTracking) ==
  [perMessageDeflate |-> perMessageDeflate, verifyClient |-> verifyClient,
   handleProtocols |-> handleProtocols, clientTracking |-> clientTracking,
   server |-> TRUE, pending |-> NoRequest, protocol |-> NoProtocol,
   clients |-> 0, socketDestroyed |-> FALSE, status |-> 0, extension |-> FALSE,
   reached |-> "none", out |-> <<>>]

\* the permessage-deflate offer of the request: none, one the server can
\* accept, or one with parameters it cannot
Offers == {"none", "valid", "invalid"}

\* an upgrade request, the answers of the user's hooks to it and the state
\* of its socket.  protocols: the Sec-WebSocket-Protocol header as the list
\* that split(/, */) makes of it; selected: the second argument that
\* handleProtocols gives to its callback
Requests ==
  [shouldHandle : BOOLEAN, upgrade : BOOLEAN, key : BOOLEAN,
   version : {7, 8, 13}, offer : Offers,
   verified : BOOLEAN, verifyCode : {NoCode, 403},
   protocols : Offered,
   protocolResult : {"accept", "reject", "never"},
   selected : Protocols \cup {NoProtocol},
   writable : BOOLEAN, writeThrows : BOOLEAN, head : Heads]

At(srv, step) == [srv EXCEPT !.reached = step]

abortConnection(srv, req, code) ==
  [(IF req.writable
    THEN [Put(srv, Response(code)) EXCEPT !.status = code]
    ELSE srv) EXCEPT !.socketDestroyed = TRUE]

\* PerMessageDeflate.accept (lib/PerMessageDeflate.js is not part of the
\* sources): throws on an offer whose parameters cannot be accepted
AcceptThrows(offer) == offer = "invalid"

\* acceptExtensions throws
acceptExtensionsThrows(srv, req) ==
  srv.perMessageDeflate /\ req.offer /= "none" /\ AcceptThrows(req.offer)

\* faulty variant: a failed negotiation is answered like an absent offer
completeHybiUpgrade2_ignoresFailure(srv, req, protocol) ==
  LET s0 == At(srv, "acceptExtensions")
      ext == srv.perMessageDeflate /\ req.offer = "valid"
      s1 == Put(At([s0 EXCEPT !.extension = ext], "write"),
                Event("headers", NoCode, ""))
  IN IF req.writeThrows THEN [s1 EXCEPT !.socketDestroyed = TRUE]
     ELSE
       LET s2 == [Put(s1, Switching(protocol)) EXCEPT !.status = 101,
                                                      !.protocol = protocol]
           s3 == IF srv.clientTracking THEN [s2 EXCEPT !.clients = @ + 1] ELSE s2
       IN Put(At(s3, "connection"), Event("connection", NoCode, ""))

\* completeHybiUpgrade2, with the callback that emits `connection`
completeHybiUpgrade2(srv, req, protocol) ==
  LET s0 == At(srv, "acceptExtensions")
  IN IF acceptExtensionsThrows(srv, req) THEN abortConnection(s0, req, 400)
     ELSE
       LET ext == srv.perMessageDeflate /\ req.offer = "valid"
           s1 == Put(At([s0 EXCEPT !.extension = ext], "write"),
                     Event("headers", NoCode, ""))
       IN IF req.writeThrows THEN [s1 EXCEPT !.socketDestroyed = TRUE]
          ELSE
            LET s2 == [Put(s1, Switching(protocol)) EXCEPT !.status = 101,
                                                           !.protocol = protocol]
                s3 == IF srv.clientTracking THEN [s2 EXCEPT !.clients = @ + 1]
                      ELSE s2
            IN Put(At(s3, "connection"), Event("connection", NoCode, ""))

\* `protocols && protocols.split(/, */)[0]`
FirstOffered(protocols) ==
  IF protocols = <<>> THEN NoProtocol ELSE protocols[1]

\* faulty variant: the value that handleProtocols selects is dropped for the
\* first offered protocol
completeHybiUpgrade1_firstOffered(srv, req) ==
  IF srv.handleProtocols
  THEN LET s0 == At(srv, "handleProtocols")
       IN IF req.protocolResult = "reject" THEN abortConnection(s0, req, 401)
          ELSE IF req.protocolResult = "never" THEN abortConnection(s0, req, 501)
          ELSE completeHybiUpgrade2(s0, req, FirstOffered(req.protocols))
  ELSE completeHybiUpgrade2(srv, req, FirstOffered(req.protocols))

\* the user's handleProtocols answers at once, or not before it returns
completeHybiUpgrade1(srv, req) ==
  IF srv.handleProtocols
  THEN LET s0 == At(srv, "handleProtocols")
       IN IF req.protocolResult = "reject" THEN abortConnection(s0, req, 401)
          ELSE IF req.protocolResult = "never" THEN abortConnection(s0, req, 501)
          ELSE completeHybiUpgrade2(s0, req, req.selected)
  ELSE completeHybiUpgrade2(srv, req, FirstOffered(req.protocols))

\* faulty variant: the answer of a one-argument verifyClient is not looked at
handleHybiUpgrade_verdictIgnored(srv, req) ==
  LET s0 == At(srv, "handleHybiUpgrade")
      s1 == At(srv, "verifyClient")
  IN IF ~req.key THEN abortConnection(s0, req, 400)
     ELSE IF req.version \notin {8, 13} THEN abortConnection(s0, req, 400)
     ELSE IF srv.verifyClient = "async" THEN [s1 EXCEPT !.pending = <<req>>]
     ELSE completeHybiUpgrade1(IF srv.verifyClient = "sync" THEN s1 ELSE s0, req)

\* a two-argument verifyClient is handed its callback and the request waits
\* for the call of it
handleHybiUpgrade(srv, req) ==
  LET s0 == At(srv, "handleHybiUpgrade")
      s1 == At(srv, "verifyClient")
  IN IF ~req.key THEN abortConnection(s0, req, 400)
     ELSE IF req.version \notin {8, 13} THEN abortConnection(s0, req, 400)
     ELSE IF srv.verifyClient = "async" THEN [s1 EXCEPT !.pending = <<req>>]
     ELSE IF srv.verifyClient = "sync" /\ ~req.verified
     THEN abortConnection(s1, req, 401)
     ELSE completeHybiUpgrade1(IF srv.verifyClient = "sync" THEN s1 ELSE s0, req)

\* the callback given to a two-argument verifyClient, called with
\* (result, code) = (req.verified, req.verifyCode); writable: the state of
\* the socket by then
verifyClientCallback(srv, writable) ==
  LET req == [srv.pending[1] EXCEPT !.writable = writable]
      s0 == [srv EXCEPT !.pending = NoRequest, !.out = <<>>]
  IN IF ~req.verified
     THEN abortConnection(s0, req, IF req.verifyCode = NoCode THEN 401
                                   ELSE req.verifyCode)
     ELSE completeHybiUpgrade1(s0, req)

handleUpgrade(srv, req) ==
  LET s0 == [srv EXCEPT !.out = <<>>, !.socketDestroyed = FALSE, !.status = 0,
                        !.extension = FALSE, !.protocol = NoProtocol,
                        !.reached = "handleUpgrade"]
  IN IF ~req.shouldHandle \/ ~req.upgrade THEN abortConnection(s0, req, 400)
     ELSE handleHybiUpgrade(s0, req)

\* no server takes part
NoServer == NewServer(FALSE, "none", FALSE, FALSE)

(***************************************************************************)
(* Actions: one per user call, socket event, timer expiry, Receiver or     *)
(* Sender event and HTTP request callback.  last names the handler that    *)
(* ran, the readyState it started from and its arguments.                  *)
(***************************************************************************)
Begin(w) == [w EXCEPT !.out = <<>>]

Op(name, w, code, data, opt, flag) ==
  [op |-> name, who |-> "ws", pre |-> w.readyState, code |-> code, data |-> data,
   opt |-> opt, flag |-> flag]

Alone == UNCHANGED <<peer, net, hist, wss, hixie>>

Close ==
  \E code \in UserCodes, data \in Reasons, endThrows \in BOOLEAN :
    /\ ws' = close(Begin(ws), code, data, endThrows)
    /\ last' = Op("close", ws, code, data, "undefined", FALSE)
    /\ Alone

Terminate ==
  \E endThrows \in BOOLEAN :
    /\ ws' = terminate(Begin(ws), endThrows)
    /\ last' = Op("terminate", ws, NoCode, "", "undefined", endThrows)
    /\ Alone

Pause ==
  /\ ws' = pause(Begin(ws))
  /\ last' = Op("pause", ws, NoCode, "", "undefined", FALSE)
  /\ Alone

Resume ==
  /\ ws' = resume(Begin(ws))
  /\ last' = Op("resume", ws, NoCode, "", "undefined", FALSE)
  /\ Alone

Ping ==
  \E data \in Payloads, optMask \in MaskOpts, dontFailWhenClosed \in BOOLEAN :
    /\ ws' = ping(Begin(ws), data, optMask, dontFailWhenClosed)
    /\ last' = Op("ping", ws, NoCode, data, optMask, dontFailWhenClosed)
    /\ Alone

Pong ==
  \E data \in Payloads, optMask \in MaskOpts, dontFailWhenClosed \in BOOLEAN :
    /\ ws' = pong(Begin(ws), data, optMask, dontFailWhenClosed)
    /\ last' = Op("pong", ws, NoCode, data, optMask, dontFailWhenClosed)
    /\ Alone

\* flag: a callback was given
Send ==
  \E data \in Payloads, optMask \in MaskOpts, hasCb \in BOOLEAN :
    /\ ws.hasQueue => Len(ws.queue) < MaxQueue
    /\ ws' = send(Begin(ws), data, optMask, hasCb)
    /\ last' = Op("send", ws, NoCode, data, optMask, hasCb)
    /\ Alone

Stream ==
  \E optMask \in MaskOpts, hasCb \in BOOLEAN :
    /\ ws.hasQueue => Len(ws.queue) < MaxQueue
    /\ ws' = stream(Begin(ws), optMask, hasCb)
    /\ last' = Op("stream", ws, NoCode, "", optMask, hasCb)
    /\ Alone

\* the user calls the handle of the active stream; flag: final
StreamSend ==
  \E data \in Payloads, final \in BOOLEAN :
    /\ ws.streamOn
    /\ ws' = streamSend(Begin(ws), data, final)
    /\ last' = Op("streamSend", ws, NoCode, data, ws.streamMask, final)
    /\ Alone

\* socket 'end': cleanupWebsocketResources()
SocketEnd ==
  /\ ws.socket
  /\ ws' = cleanupWebsocketResources(Begin(ws), FALSE)
  /\ last' = Op("socketEnd", ws, NoCode, "", "undefined", FALSE)
  /\ Alone

\* socket 'close': cleanupWebsocketResources(hadError)
SocketClose ==
  \E hadError \in BOOLEAN :
    /\ ws.socket
    /\ ws' = cleanupWebsocketResources(Begin(ws), hadError)
    /\ last' = Op("socketClose", ws, NoCode, "", "undefined", hadError)
    /\ Alone

\* socket 'error': cleanupWebsocketResources(err)
SocketError ==
  /\ ws.socket
  /\ ws' = cleanupWebsocketResources(Begin(ws), TRUE)
  /\ last' = Op("socketError", ws, NoCode, "", "undefined", TRUE)
  /\ Alone

\* the close timer fires: cleanupWebsocketResources.bind(self, true)
TimerExpiry ==
  /\ ws.closeTimer
  /\ ws' = cleanupWebsocketResources([Begin(ws) EXCEPT !.closeTimer = FALSE], TRUE)
  /\ last' = Op("timer", ws, NoCode, "", "undefined", FALSE)
  /\ Alone

\* the Sender completes the close frame; flag: with an error
CloseCallback ==
  \E err \in BOOLEAN, endThrows \in BOOLEAN :
    /\ ws.closeCb
    /\ ws' = closeCallback([Begin(ws) EXCEPT !.closeCb = FALSE], err, endThrows)
    /\ last' = Op("closeCallback", ws, NoCode, "", "undefined", err)
    /\ Alone

SenderError ==
  \E endThrows \in BOOLEAN :
    /\ ws.sender
    /\ ws' = onSenderError(Begin(ws), endThrows)
    /\ last' = Op("senderError", ws, NoCode, "", "undefined", FALSE)
    /\ Alone

\* the Receiver parses frames as long as socket data reaches it
Receiving(w) == w.receiver /\ w.socket

RecvMessage ==
  \E data \in Data :
    /\ Receiving(ws)
    /\ ws' = onmessage(Begin(ws), data)
    /\ last' = Op("onmessage", ws, NoCode, data, "undefined", FALSE)
    /\ Alone

RecvPing ==
  \E data \in Data :
    /\ Receiving(ws)
    /\ ws' = onping(Begin(ws), data)
    /\ last' = Op("onping", ws, NoCode, data, "undefined", FALSE)
    /\ Alone

RecvPong ==
  \E data \in Data :
    /\ Receiving(ws)
    /\ ws' = onpong(Begin(ws), data)
    /\ last' = Op("onpong", ws, NoCode, data, "undefined", FALSE)
    /\ Alone

RecvClose ==
  \E code \in PeerCodes, data \in Reasons, endThrows \in BOOLEAN :
    /\ Receiving(ws)
    /\ code = NoCode => data = ""
    /\ ws' = onclose(Begin(ws), code, data, endThrows)
    /\ last' = Op("onclose", ws, code, data, "undefined", FALSE)
    /\ Alone

RecvError ==
  \E errorCode \in ReceiverErrorCodes, endThrows \in BOOLEAN :
    /\ Receiving(ws)
    /\ ws' = onerror(Begin(ws), errorCode, endThrows)
    /\ last' = Op("onerror", ws, errorCode, "", "undefined", FALSE)
    /\ Alone

\* req 'error': before the response, or later while the listener is still attached
ReqError ==
  /\ ws.req \in {"pending", "done"}
  /\ ws' = reqError([Begin(ws) EXCEPT !.req = IF @ = "pending" THEN "failed" ELSE @])
  /\ last' = Op("reqError", ws, NoCode, "", "undefined", FALSE)
  /\ Alone

ReqResponse ==
  \E handled \in BOOLEAN :
    /\ ws.req = "pending"
    /\ handled => ws.listeners = "user"
    /\ ws' = reqResponse(Begin(ws), handled)
    /\ last' = Op("reqResponse", ws, NoCode, "", "undefined", handled)
    /\ Alone

\* flag: the response passed every check; data: the verdict
ReqUpgrade ==
  \E verdict \in Verdicts :
    /\ ws.req = "pending"
    /\ ws' = reqUpgrade(Begin(ws), verdict, NoHead)
    /\ last' = Op("reqUpgrade", ws, NoCode, verdict, "undefined", verdict = Accept)
    /\ Alone

(***************************************************************************)
(* The Hixie Receiver (Receiver.hixie.js).  A Buffer is a sequence of       *)
(* bytes; the callbacks the Receiver invokes are recorded in `out`.        *)
(***************************************************************************)
EMPTY == 0
BODY == 1
BINARYLENGTH == 2
BINARYBODY == 3

\* `null` / `undefined` as the value doAdd hands back to the loop of add
NoTail == <<-1>>

\* U+FFFD, what toString('utf8') yields for a byte that starts no character
Replacement == 65533

\* new Receiver()
NewReceiver ==
  [state |-> EMPTY, buffers |-> <<>>, messageEnd |-> -1, spanLength |-> 0,
   dead |-> FALSE, out |-> <<>>]

\* no Receiver under observation
NoReceiver ==
  [r |-> NewReceiver, strict |-> TRUE, stream |-> <<>>, rest |-> <<>>,
   events |-> <<>>]

\* Buffer.prototype.slice(start): a negative start counts from the end
Slice(data, start) ==
  LET from == IF start < 0 THEN (IF Len(data) + start < 0 THEN 0 ELSE Len(data) + start)
              ELSE IF start > Len(data) THEN Len(data) ELSE start
  IN SubSeq(data, from + 1, Len(data))

\* Buffer.prototype.indexOf(byte)
IndexOf(data, byte) ==
  IF \E k \in 1..Len(data) : data[k] = byte
  THEN (CHOOSE k \in 1..Len(data) :
          data[k] = byte /\ \A m \in 1..(k - 1) : data[m] /= byte) - 1
  ELSE -1

\* source.copy(output, at, 0, end): the bytes that fit are written, and
\* nothing is written at or beyond the end of the output
Copy(output, at, source, end) ==
  [k \in 1..Len(output) |->
     IF k > at /\ k - at <= end /\ k - at <= Len(source) THEN source[k - at]
     ELSE output[k]]

\* output.toString('utf8') over single bytes
Utf8(output) ==
  [k \in 1..Len(output) |-> IF output[k] < 128 THEN output[k] ELSE Replacement]

\* the callbacks
Call(r, name, data) == [r EXCEPT !.out = Append(@, [op |-> name, data |-> data])]

\* reset (161-167)
reset(r) ==
  IF r.dead THEN r
  ELSE [r EXCEPT !.state = EMPTY, !.buffers = <<>>, !.messageEnd = -1,
                 !.spanLength = 0]

\* Receiver.error (150-154)
receiverError(r) == Call(reset(r), "error", <<>>)

\* cleanup (112-116)
cleanup(r) == [r EXCEPT !.dead = TRUE, !.state = EMPTY, !.buffers = <<>>]

RECURSIVE CopyBuffers(_, _, _, _)
\* the loop of parse (127-131) over the buffers k..Len(buffers)-1
CopyBuffers(buffers, k, output, outputIndex) ==
  IF k >= Len(buffers) THEN [output |-> output, outputIndex |-> outputIndex]
  ELSE CopyBuffers(buffers, k + 1,
                   Copy(output, outputIndex, buffers[k], Len(buffers[k])),
                   outputIndex + Len(buffers[k]))

\* parse (124-142).  env.fill is the byte found in memory that new Buffer
\* does not initialize; env.strict tells whether the runtime's new Buffer
\* raises on a negative size (otherwise the size is taken as 0).
parse(r, env) ==
  IF r.spanLength < 0 /\ env.strict
  THEN [r |-> Call(r, "throw", <<>>), tail |-> NoTail]
  ELSE
    LET size == IF r.spanLength < 0 THEN 0 ELSE r.spanLength
        blank == [k \in 1..size |-> env.fill]
        done == CopyBuffers(r.buffers, 1, blank, 0)
        lastBuffer == r.buffers[Len(r.buffers)]
        output == IF r.messageEnd > 0
                  THEN Copy(done.output, done.outputIndex, lastBuffer, r.messageEnd)
                  ELSE done.output
        messageEnd == IF r.state /= BODY THEN r.messageEnd - 1 ELSE r.messageEnd
        tail == IF messageEnd < Len(lastBuffer) - 1
                THEN Slice(lastBuffer, messageEnd + 1) ELSE NoTail
        r1 == reset([r EXCEPT !.messageEnd = messageEnd])
    IN [r |-> Call(r1, "text", Utf8(output)), tail |-> tail]

\* the length bytes of add (66-80): i is the number of bytes consumed
RECURSIVE LengthBytes(_, _, _)
LengthBytes(data, i, messageEnd) ==
  IF i < Len(data) /\ data[i + 1] >= 128
  THEN LengthBytes(data, i + 1, 128 * messageEnd + (data[i + 1] % 128))
  ELSE [i |-> i, messageEnd |-> messageEnd]

\* doAdd, from the test of BINARYLENGTH on (66-101)
doAddBody(r0, data0, env) ==
  LET len == IF r0.state = BINARYLENGTH
             THEN LengthBytes(data0, 0, r0.messageEnd)
             ELSE [i |-> 0, messageEnd |-> r0.messageEnd]
      more == r0.state = BINARYLENGTH /\ len.i < Len(data0)
      r1 == IF more
            THEN [r0 EXCEPT !.messageEnd = 128 * len.messageEnd + (data0[len.i + 1] % 128),
                            !.state = BINARYBODY]
            ELSE [r0 EXCEPT !.messageEnd = len.messageEnd]
      i == IF more THEN len.i + 1 ELSE len.i
      data == IF i > 0 THEN Slice(data0, i) ELSE data0
      pushed == [r1 EXCEPT !.buffers = Append(@, data)]
  IN IF r1.state = BINARYBODY THEN
       LET dataleft == r1.messageEnd - r1.spanLength
       IN IF Len(data) >= dataleft
          THEN parse([pushed EXCEPT !.spanLength = @ + dataleft,
                                    !.messageEnd = dataleft], env)
          ELSE [r |-> [pushed EXCEPT !.spanLength = @ + Len(data)], tail |-> NoTail]
     ELSE
       LET messageEnd == IndexOf(data, 255)
           r2 == [pushed EXCEPT !.messageEnd = messageEnd]
       IN IF messageEnd /= -1
          THEN parse([r2 EXCEPT !.spanLength = @ + messageEnd], env)
          ELSE [r |-> [r2 EXCEPT !.spanLength = @ + Len(data)], tail |-> NoTail]

\* doAdd (46-102): the Receiver after it, and the data it hands back
doAdd(r, data, env) ==
  IF r.state = EMPTY THEN
    IF Len(data) = 2 /\ data[1] = 255 /\ data[2] = 0
    THEN [r |-> Call(reset(r), "close", <<>>), tail |-> NoTail]
    ELSE IF Len(data) > 0 /\ data[1] = 128
    THEN doAddBody([r EXCEPT !.messageEnd = 0, !.state = BINARYLENGTH],
                   Slice(data, 1), env)
    ELSE IF Len(data) = 0 \/ data[1] /= 0
    THEN [r |-> receiverError(r), tail |-> NoTail]
    ELSE doAddBody([r EXCEPT !.state = BODY], Slice(data, 1), env)
  ELSE doAddBody(r, data, env)

\* an exception left add
Threw(r) == r.out /= <<>> /\ r.out[Len(r.out)].op = "throw"

RECURSIVE add(_, _, _)
\* add (44-104): `while (data) data = doAdd()`
add(r, data, env) ==
  LET step == doAdd(r, data, env)
  IN IF step.tail = NoTail \/ Threw(step.r) THEN step.r
     ELSE add(step.r, step.tail, env)

(***************************************************************************)
(* Specifications                                                          *)
(***************************************************************************)
NoPeer == [NewClient EXCEPT !.req = "none"]

NoNet == [c2s |-> <<>>, s2c |-> <<>>]

\* called, code, data: the user's close call of the pair model; order: the
\* send and stream calls accepted so far; sent: the messages completed at the
\* Sender so far
\* head, arrived: the upgradeHead given to the endpoint and the
\* socket chunks that arrived so far
\* request: the upgrade request the server handled last
NoHist == [called |-> FALSE, code |-> NoCode, data |-> "", order |-> <<>>,
           sent |-> <<>>, head |-> NoHead, arrived |-> <<>>,
           request |-> NoRequest, aborts |-> 0, connections |-> 0,
           callbacks |-> 0, chunks |-> 0]

Constructed == [op |-> "new", who |-> "ws", pre |-> CONNECTING, code |-> NoCode,
                data |-> "", opt |-> "undefined", flag |-> FALSE]

Init ==
  /\ ws \in {NewClient, NewServerClient}
  /\ peer = NoPeer
  /\ net = NoNet
  /\ hist = NoHist
  /\ last = Constructed
  /\ wss = NoServer
  /\ hixie = NoReceiver

\* the endpoint's lifecycle with plain sends (no streamed message)
Next ==
  \/ Close \/ Terminate \/ Pause \/ Resume \/ Ping \/ Pong \/ Send
  \/ SocketEnd \/ SocketClose \/ SocketError \/ TimerExpiry
  \/ CloseCallback \/ SenderError
  \/ RecvMessage \/ RecvPing \/ RecvPong \/ RecvClose \/ RecvError
  \/ ReqError \/ ReqResponse \/ ReqUpgrade

Spec == Init /\ [][Next]_vars

\* an established endpoint with streamed messages and the send queue
NextStream ==
  \/ ReqUpgrade
  \/ Send \/ Stream \/ StreamSend \/ Ping \/ Pong \/ Close
  \/ RecvPing \/ SocketEnd

SpecStream == Init /\ [][NextStream]_vars

(***************************************************************************)
(* Observations used by the properties                                     *)
(***************************************************************************)
Outs(w, t) == {i \in 1..Len(w.out) : w.out[i].t = t}

Events(w, name) == {i \in Outs(w, "event") : w.out[i].op = name}

Frames(w) == Outs(w, "frame")

\* the step that just ran moved readyState to CLOSED
BecameClosed == last.pre /= CLOSED /\ ws.readyState = CLOSED

(***************************************************************************)
(* Properties of the endpoint lifecycle                                    *)
(***************************************************************************)
\* C1: the `close` event is emitted at most once in every execution of an
\* endpoint.
C1_CloseAtMostOnce == ws.closeEmits <= 1

\* C2: `close` is emitted by a step iff that step sets readyState to CLOSED.
C2_CloseIffClosed == BecameClosed <=> Events(ws, "close") /= {}

\* C4: whenever `close` is emitted and no close frame was received, the
\* event carries code 1006.
C4_NoCloseFrame1006 ==
  \A i \in Events(ws, "close") :
    ~ws.closeReceived => ws.out[i].code = AbnormalClosure

(***************************************************************************)
(* Calls and replies outside OPEN                                          *)
(***************************************************************************)
GuardedCalls == {"send", "ping", "pong", "pause", "resume"}

\* the call changed no field of the endpoint
Untouched == ws' = [ws EXCEPT !.out = ws'.out]

\* the call failed with a not-open error: thrown, or given to send's callback
FailedNotOpen ==
  IF last'.op = "send" /\ last'.flag
  THEN ws'.out = <<Callback("error")>>
  ELSE ws'.out = <<Throw>>

\* C6 as stated: send, ping, pong, pause and resume outside OPEN always fail
\* with a not-open error and change nothing.
C6_NotOpenAlwaysFails ==
  [][(last'.op \in GuardedCalls /\ ws.readyState /= OPEN)
       => (FailedNotOpen /\ Untouched)]_vars

\* C6 (amended): send, pause and resume outside OPEN fail with a not-open
\* error, ping and pong fail unless called with dontFailWhenClosed = true, in
\* which case they return silently; in every case nothing changes.
C6_NotOpenFailsUnlessDontFail ==
  [][(last'.op \in GuardedCalls /\ ws.readyState /= OPEN)
       => /\ Untouched
          /\ IF last'.op \in {"ping", "pong"} /\ last'.flag
             THEN ws'.out = <<>>
             ELSE FailedNotOpen]_vars

C6_Witness ==
  /\ last.op = "ping" /\ last.pre = CLOSING /\ ~last.flag
  /\ ws.out = <<Throw>> /\ ws.readyState = CLOSING

\* C7: a PING arriving outside OPEN writes no frame, throws nothing and
\* emits no error; a close frame arriving in CLOSING or CLOSED sends no
\* second close frame, throws nothing and emits no error.
C7_ReplyPathsNeverThrow ==
  /\ (last.op = "onping" /\ last.pre /= OPEN)
       => ws.out = <<Event("ping", NoCode, last.data)>>
  /\ (last.op = "onclose" /\ last.pre \in {CLOSING, CLOSED})
       => /\ Frames(ws) = {}
          /\ Outs(ws, "throw") = {}
          /\ Events(ws, "error") = {}

C7_Witness ==
  /\ last.op = "onping" /\ last.pre = CLOSING
  /\ Frames(ws) = {} /\ ws.closeCb

\* C8: a PING reported in OPEN is answered by exactly one PONG with the
\* same payload, masked iff the endpoint is a client, then the `ping` event
\* with that payload is emitted, and readyState stays OPEN.
C8_PingAutoPong ==
  (last.op = "onping" /\ last.pre = OPEN)
    => /\ ws.readyState = OPEN
       /\ Len(ws.out) = 2
       /\ ws.out[1].t = "frame" /\ ws.out[1].op = "pong"
       /\ ws.out[1].data = last.data
       /\ ws.out[1].mask = ~ws.isServer
       /\ ws.out[2] = Event("ping", NoCode, last.data)

C8_Witness ==
  /\ last.op = "onping" /\ last.pre = OPEN /\ ~ws.isServer
  /\ Frames(ws) /= {}

\* C9: a Receiver ERROR(kind, code) in OPEN hands the Sender one close frame
\* with exactly that code and an empty reason, and after it emits exactly one
\* `error` event.
C9_ReceiverErrorCloses ==
  (last.op = "onerror" /\ last.pre = OPEN)
    => /\ Len(ws.out) = 2
       /\ ws.out[1].t = "frame" /\ ws.out[1].op = "close"
       /\ ws.out[1].code = last.code /\ ws.out[1].data = ""
       /\ ws.out[2].t = "event" /\ ws.out[2].op = "error"

C9_Witness ==
  /\ last.op = "onerror" /\ last.pre = OPEN /\ last.code = 1009
  /\ ws.readyState = CLOSING /\ Events(ws, "error") /= {}

(***************************************************************************)
(* Masking of outbound frames                                              *)
(***************************************************************************)
\* C10 as stated: every frame a server endpoint hands to the Sender is
\* unmasked and every frame a client endpoint hands to the Sender is masked,
\* whatever options the calls carry.
C10_MaskByRoleAnyOptions ==
  \A i \in Frames(ws) : ws.out[i].mask = ~ws.isServer

\* C10 (amended): every close frame and every frame of a send, stream, ping
\* or pong call that passes no mask option is unmasked on a server endpoint
\* and masked on a client endpoint; a call that passes a mask option has its
\* frames masked exactly as the option says.
C10_MaskByRoleUnlessGiven ==
  \A i \in Frames(ws) :
    /\ ws.out[i].given = "undefined" => ws.out[i].mask = ~ws.isServer
    /\ ws.out[i].given /= "undefined" => ws.out[i].mask = (ws.out[i].given = "true")
    /\ ws.out[i].op = "close" => ws.out[i].given = "undefined"

\* a final fragment followed by the replay of a queued send, on a server
C10_Witness ==
  /\ last.op = "streamSend" /\ last.flag /\ ws.isServer
  /\ Cardinality(Frames(ws)) = 2
  /\ ws.out[2].given = "undefined" /\ ~ws.out[2].mask

(***************************************************************************)
(* The close timer: a close() that the peer never answers                  *)
(***************************************************************************)
\* the peer sends no close frame and the socket neither ends nor errors
NextTimeout ==
  \/ ReqUpgrade
  \/ Close \/ Terminate \/ Ping \/ Pong \/ Send
  \/ TimerExpiry \/ CloseCallback \/ SenderError
  \/ RecvMessage \/ RecvPing \/ RecvPong \/ RecvError

\* a timer that is armed fires; a close frame handed to the Sender completes
SpecTimeout ==
  /\ Init /\ [][NextTimeout]_vars
  /\ WF_vars(TimerExpiry) /\ WF_vars(CloseCallback)

\* C3: after a user close() on an OPEN endpoint that the peer never answers,
\* the endpoint eventually becomes CLOSED with close code 1006.
C3_CloseTimesOut ==
  (last.op = "close" /\ last.pre = OPEN)
    ~> (ws.readyState = CLOSED /\ ws.closeCode = AbnormalClosure /\ ws.closeEmits = 1)

(***************************************************************************)
(* A client endpoint (ws) and a server endpoint (peer) connected to each   *)
(* other.  net.c2s and net.s2c hold what is in flight in each direction:   *)
(* the frames the Sender wrote, and the end of the byte stream.            *)
(***************************************************************************)
Fin ==
  [t |-> "fin", op |-> "end", code |-> NoCode, data |-> "",
   mask |-> FALSE, fin |-> TRUE, given |-> "undefined"]

\* Sender: the payload of a close frame is the code and the reason when a
\* code is supplied, and empty otherwise
closePayload(code, data) == IF code = NoCode THEN <<>> ELSE <<code, data>>

\* Receiver: an empty close payload is CLOSE(no code, "")
parseClose(payload) ==
  IF payload = <<>> THEN [code |-> NoCode, data |-> ""]
  ELSE [code |-> payload[1], data |-> payload[2]]

IsFrame(o) == o.t = "frame"

\* what a handler run put on the wire: its frames, then the end of the
\* stream if it ended or destroyed the socket
Wire(before, after) ==
  SelectSeq(after.out, IsFrame) \o
    (IF \/ after.socketEnded /\ ~before.socketEnded
        \/ after.socketDestroyed /\ ~before.socketDestroyed
     THEN <<Fin>> ELSE <<>>)

\* the endpoint's socket hands it the next item of the byte stream
deliver(w, m) ==
  IF m.t = "fin" THEN (IF w.socket THEN cleanupWebsocketResources(w, FALSE) ELSE w)
  ELSE IF ~Receiving(w) THEN w
  ELSE IF m.op = "close"
  THEN LET p == parseClose(closePayload(m.code, m.data))
       IN onclose(w, p.code, p.data, FALSE)
  ELSE IF m.op = "ping" THEN onping(w, m.data)
  ELSE IF m.op = "pong" THEN onpong(w, m.data)
  ELSE onmessage(w, m.data)

OpOf(who, name, w, code, data) ==
  [op |-> name, who |-> who, pre |-> w.readyState, code |-> code, data |-> data,
   opt |-> "undefined", flag |-> FALSE]

ClientDoes(name, w1, code, data) ==
  /\ ws' = w1
  /\ net' = [net EXCEPT !.c2s = @ \o Wire(ws, w1)]
  /\ last' = OpOf("ws", name, ws, code, data)
  /\ peer' = Begin(peer)

ServerDoes(name, w1, code, data) ==
  /\ peer' = w1
  /\ net' = [net EXCEPT !.s2c = @ \o Wire(peer, w1)]
  /\ last' = OpOf("peer", name, peer, code, data)
  /\ ws' = Begin(ws)

\* user traffic is limited by what is already in flight
InFlight == Len(net.c2s) + Len(net.s2c)

\* the client's user calls close(code, data) in OPEN, once
PairClose ==
  \E code \in UserCodes, data \in Reasons :
    /\ ~hist.called /\ ws.readyState = OPEN
    /\ hist' = [hist EXCEPT !.called = TRUE, !.code = code, !.data = data]
    /\ ClientDoes("close", close(Begin(ws), code, data, FALSE), code, data)
    /\ UNCHANGED <<wss, hixie>>

PairClientPing ==
  \E data \in Data :
    /\ InFlight < MaxNet /\ ws.readyState = OPEN
    /\ ClientDoes("ping", ping(Begin(ws), data, "undefined", FALSE), NoCode, data)
    /\ UNCHANGED <<hist, wss, hixie>>

PairServerSend ==
  \E data \in Payloads :
    /\ InFlight < MaxNet /\ peer.readyState = OPEN
    /\ ServerDoes("send", send(Begin(peer), data, "undefined", FALSE), NoCode, data)
    /\ UNCHANGED <<hist, wss, hixie>>

PairClientCloseCallback ==
  /\ ws.closeCb
  /\ ClientDoes("closeCallback",
                closeCallback([Begin(ws) EXCEPT !.closeCb = FALSE], FALSE, FALSE),
                NoCode, "")
  /\ UNCHANGED <<hist, wss, hixie>>

PairServerCloseCallback ==
  /\ peer.closeCb
  /\ ServerDoes("closeCallback",
                closeCallback([Begin(peer) EXCEPT !.closeCb = FALSE], FALSE, FALSE),
                NoCode, "")
  /\ UNCHANGED <<hist, wss, hixie>>

PairDeliverToServer ==
  /\ net.c2s /= <<>>
  /\ peer' = deliver(Begin(peer), Head(net.c2s))
  /\ net' = [c2s |-> Tail(net.c2s), s2c |-> net.s2c \o Wire(peer, peer')]
  /\ last' = OpOf("peer", "deliver", peer, Head(net.c2s).code, Head(net.c2s).data)
  /\ ws' = Begin(ws)
  /\ UNCHANGED <<hist, wss, hixie>>

PairDeliverToClient ==
  /\ net.s2c /= <<>>
  /\ ws' = deliver(Begin(ws), Head(net.s2c))
  /\ net' = [s2c |-> Tail(net.s2c), c2s |-> net.c2s \o Wire(ws, ws')]
  /\ last' = OpOf("ws", "deliver", ws, Head(net.s2c).code, Head(net.s2c).data)
  /\ peer' = Begin(peer)
  /\ UNCHANGED <<hist, wss, hixie>>

\* nothing is in flight and no Sender callback is pending
Quiet == net = NoNet /\ ~ws.closeCb /\ ~peer.closeCb

\* 30 s outlast everything in flight: a close timer, of either endpoint,
\* fires only when quiet
PairTimer ==
  /\ Quiet
  /\ \E who \in {"ws", "peer"} :
       IF who = "ws"
       THEN /\ ws.closeTimer
            /\ ClientDoes("timer",
                 cleanupWebsocketResources([Begin(ws) EXCEPT !.closeTimer = FALSE], TRUE),
                 NoCode, "")
       ELSE /\ peer.closeTimer
            /\ ServerDoes("timer",
                 cleanupWebsocketResources([Begin(peer) EXCEPT !.closeTimer = FALSE], TRUE),
                 NoCode, "")
  /\ UNCHANGED <<hist, wss, hixie>>

InitPair ==
  /\ ws = Begin(reqUpgrade(NewClient, Accept, NoHead))
  /\ peer = Begin(NewServerClient)
  /\ net = NoNet
  /\ hist = NoHist
  /\ last = Constructed
  /\ wss = NoServer
  /\ hixie = NoReceiver

NextPair ==
  \/ PairClose \/ PairClientPing \/ PairServerSend
  \/ PairClientCloseCallback \/ PairServerCloseCallback
  \/ PairDeliverToServer \/ PairDeliverToClient
  \/ PairTimer

\* what is in flight arrives, Sender callbacks run, armed timers fire
SpecPair ==
  /\ InitPair /\ [][NextPair]_vars
  /\ WF_vars(PairDeliverToServer) /\ WF_vars(PairDeliverToClient)
  /\ WF_vars(PairClientCloseCallback) /\ WF_vars(PairServerCloseCallback)
  /\ WF_vars(PairTimer)

\* the client's close call handed a close frame with a code to the Sender
HandshakeStarted == hist.called /\ ValidCloseCode(hist.code)

CarriesUserClose(w) ==
  \A i \in Events(w, "close") :
    w.out[i].code = hist.code /\ w.out[i].data = hist.data

\* C5: when the client calls close(c, r) in OPEN and no socket error occurs,
\* the server answers with a close frame carrying (c, r), every `close` event
\* of either endpoint carries exactly (c, r), and both endpoints eventually
\* emit `close`.
C5_NormalHandshake ==
  /\ [](HandshakeStarted =>
          /\ CarriesUserClose(ws) /\ CarriesUserClose(peer)
          /\ \A i \in Frames(peer) :
               peer.out[i].op = "close" =>
                 /\ peer.out[i].code = hist.code
                 /\ peer.out[i].data = hist.data
                 /\ ~peer.out[i].mask)
  /\ (HandshakeStarted ~>
        /\ ws.readyState = CLOSED /\ ws.closeEmits = 1 /\ ws.closeReceived
        /\ peer.readyState = CLOSED /\ peer.closeEmits = 1 /\ peer.closeReceived)

\* the server has just emitted close(4000, "bye"), after the client did
C5_Witness ==
  /\ hist.called /\ hist.code = 4000 /\ hist.data = "bye"
  /\ \E i \in Events(peer, "close") :
       peer.out[i].code = 4000 /\ peer.out[i].data = "bye"
  /\ ws.closeEmits = 1 /\ ws.closeCode = 4000 /\ ws.closeMessage = "bye"
  /\ ws.closeReceived /\ peer.closeReceived

(***************************************************************************)
(* Send serialization: an established endpoint whose user sends plain      *)
(* messages, readables and streamed messages.  net.c2s holds the data      *)
(* frames handed to the Sender so far, hist.order the accepted calls and   *)
(* hist.sent the messages completed at the Sender, both by label: the      *)
(* k-th call sends the payload "m<k>" or the readable "r<k>", every        *)
(* fragment given to a stream() handle is "s".                             *)
(***************************************************************************)
PlainLabel == <<"m1", "m2", "m3", "m4">>

ReadableLabel == <<"r1", "r2", "r3", "r4">>

IsData(o) == o.t = "frame" /\ o.op = "message"

IsFinal(o) == IsData(o) /\ o.fin

\* the messages a handler run completed: a final frame names its message by
\* its payload, the null frame that ends a readable by the readable
Done(before, after) ==
  LET fins == SelectSeq(after.out, IsFinal)
  IN [i \in 1..Len(fins) |->
        IF fins[i].data = Null THEN before.readable ELSE fins[i].data]

\* a message has been begun at the Sender and not finished
Streaming == net.c2s /= <<>> /\ ~net.c2s[Len(net.c2s)].fin

RECURSIVE Trailing(_)
\* the fragments of the unfinished message
Trailing(q) ==
  IF q = <<>> \/ q[Len(q)].fin THEN 0 ELSE 1 + Trailing(SubSeq(q, 1, Len(q) - 1))

Serial(name, w1, label, flag, call) ==
  /\ ws' = w1
  /\ net' = [net EXCEPT !.c2s = @ \o SelectSeq(w1.out, IsData)]
  /\ hist' = [hist EXCEPT !.order = @ \o call, !.sent = @ \o Done(ws, w1)]
  /\ last' = Op(name, ws, NoCode, label, "undefined", flag)
  /\ UNCHANGED <<peer, wss, hixie>>

\* the call is accepted: it is transmitted or enqueued
Accepted(label) == IF ws.readyState = OPEN THEN <<label>> ELSE <<>>

\* user code runs between a sendStream callback and the tick it scheduled
\* only inside the user's callback
UserRuns == ws.tick => ws.readableCb

\* flag: a callback was given
SerialSend ==
  \E isReadable \in BOOLEAN, hasCb \in BOOLEAN :
    LET k == Len(hist.order) + 1
        data == IF isReadable THEN ReadableLabel[k] ELSE PlainLabel[k]
    IN /\ k <= MaxCalls /\ UserRuns
       /\ Serial("send", send(Begin(ws), data, "undefined", hasCb), data, hasCb,
                 Accepted(data))

SerialStream ==
  /\ Len(hist.order) < MaxCalls /\ UserRuns
  /\ Serial("stream", stream(Begin(ws), "undefined", TRUE), StreamData, TRUE,
            Accepted(StreamData))

\* flag: final
SerialStreamSend ==
  \E final \in BOOLEAN :
    /\ ws.streamOn /\ UserRuns
    /\ final \/ Trailing(net.c2s) < MaxFrags
    /\ Serial("streamSend", streamSend(Begin(ws), StreamData, final), StreamData,
              final, <<>>)

\* the attached readable emits 'data': its chunks carry its label
ReadableData ==
  /\ ws.readable /= Null /\ ~ws.tick
  /\ Trailing(net.c2s) < MaxFrags
  /\ Serial("readableData", readableData(Begin(ws), ws.readable), ws.readable,
            FALSE, <<>>)

\* the attached readable emits 'end'
ReadableEnd ==
  /\ ws.readable /= Null /\ ~ws.tick
  /\ Serial("readableEnd", readableEnd(Begin(ws)), ws.readable, TRUE, <<>>)

\* the tick scheduled by the sendStream callback
Tock ==
  /\ ws.tick
  /\ Serial("tock", tock(Begin(ws)), Null, FALSE, <<>>)

SerialClose ==
  /\ ~ws.tick
  /\ Serial("close", close(Begin(ws), NormalClosure, "", FALSE), Null, FALSE, <<>>)

SerialSocketEnd ==
  /\ ws.socket /\ ~ws.tick
  /\ Serial("socketEnd", cleanupWebsocketResources(Begin(ws), FALSE), Null, FALSE,
            <<>>)

InitSerial ==
  /\ ws \in {Begin(reqUpgrade(NewClient, Accept, NoHead)), Begin(NewServerClient)}
  /\ peer = NoPeer
  /\ net = NoNet
  /\ hist = NoHist
  /\ last = Constructed
  /\ wss = NoServer
  /\ hixie = NoReceiver

NextSerial ==
  \/ SerialSend \/ SerialStream \/ SerialStreamSend
  \/ ReadableData \/ ReadableEnd \/ Tock
  \/ SerialClose \/ SerialSocketEnd

SpecSerial == InitSerial /\ [][NextSerial]_vars

\* g continues or ends the message that f belongs to
SameMessage(f, g) ==
  \/ g.data = f.data
  \/ g.data = Null /\ g.fin /\ f.data \in Readables

\* C11: between the first and the final fragment of a streamed message the
\* Sender is handed no data frame of another message, and every send or
\* stream call made on the OPEN endpoint in that interval is enqueued and
\* hands the Sender nothing.
C11_StreamNotInterleaved ==
  /\ [](\A i \in 1..(Len(net.c2s) - 1) :
          ~net.c2s[i].fin => SameMessage(net.c2s[i], net.c2s[i + 1]))
  /\ [][(last'.op \in {"send", "stream"} /\ Streaming /\ ws.readyState = OPEN)
         => /\ Frames(ws') = {}
            /\ ws'.hasQueue /\ Len(ws'.queue) = Len(ws.queue) + 1]_vars

\* a send made after the first chunk of a readable is waiting in the queue
C11_Witness ==
  /\ last.op = "send" /\ last.pre = OPEN /\ Streaming
  /\ net.c2s[Len(net.c2s)].data \in Readables
  /\ Frames(ws) = {} /\ Len(ws.queue) = 1

IsPrefix(s, t) == Len(s) <= Len(t) /\ s = SubSeq(t, 1, Len(s))

\* C12: the messages completed at the Sender are, in order, the first of
\* the accepted send and stream calls.
C12_CallOrder == IsPrefix(hist.sent, hist.order)

\* a stream, a second stream queued behind it and a plain send queued behind
\* both have all reached the Sender
C12_Witness ==
  /\ hist.order = <<StreamData, StreamData, "m3">>
  /\ hist.sent = hist.order

\* the queued sends that were given a callback
CbItems(q) == {i \in 1..Len(q) : q[i].kind = "send" /\ q[i].cb}

FailedCallbacks(w) == {i \in Outs(w, "cb") : w.out[i].op = "error"}

\* C15: when the endpoint reaches CLOSED, every send waiting in the queue
\* with a callback has that callback invoked with an error (the queue does
\* not outlive the step, so a callback not invoked then is never invoked).
C15_PendingSendsFail ==
  [][(ws.readyState /= CLOSED /\ ws'.readyState = CLOSED)
       => Cardinality(FailedCallbacks(ws')) >= Cardinality(CbItems(ws.queue))]_vars

(***************************************************************************)
(* The bytes buffered with the upgrade: an endpoint that has just been     *)
(* established with an upgradeHead, the tick that flushes it and the       *)
(* chunks the socket delivers.  hist.head is the upgradeHead the endpoint  *)
(* was given, hist.arrived the chunks that arrived, the k-th being "d<k>". *)
(***************************************************************************)
Chunks == <<"d1", "d2", "d3", "d4">>

\* process.nextTick(firstHandler)
FirstTick ==
  /\ ws.firstTick
  /\ ws' = firstHandler([Begin(ws) EXCEPT !.firstTick = FALSE], NoData)
  /\ last' = Op("firstTick", ws, NoCode, NoData, "undefined", FALSE)
  /\ Alone

\* the socket emits 'data' to the listener that is attached
SocketData ==
  LET chunk == Chunks[Len(hist.arrived) + 1]
  IN /\ Len(hist.arrived) < MaxChunks
     /\ ws.dataListener /= "none"
     /\ ws' = IF ws.dataListener = "first" THEN firstHandler(Begin(ws), chunk)
              ELSE realHandler(Begin(ws), chunk)
     /\ last' = Op("socketData", ws, NoCode, chunk, "undefined", FALSE)
     /\ hist' = [hist EXCEPT !.arrived = Append(@, chunk)]
     /\ UNCHANGED <<peer, net, wss, hixie>>

\* socket events and timers come after the tick scheduled on establishment
HeadSocketEnd == ~ws.firstTick /\ SocketEnd

HeadTimerExpiry == ~ws.firstTick /\ TimerExpiry

InitHead ==
  \E head \in Heads :
    /\ ws \in {Begin(reqUpgrade(NewClient, Accept, head)),
                Begin(initAsServerClient(head, NoProtocol))}
    /\ peer = NoPeer
    /\ net = NoNet
    /\ hist = [NoHist EXCEPT !.head = head]
    /\ last = Constructed
    /\ wss = NoServer
    /\ hixie = NoReceiver

\* user calls may come before the tick (from an `open` listener or from the
\* code that created the endpoint)
NextHead ==
  \/ FirstTick \/ SocketData
  \/ Close \/ Terminate
  \/ HeadSocketEnd \/ HeadTimerExpiry

SpecHead == InitHead /\ [][NextHead]_vars

\* what the Receiver has been handed once the upgradeHead is flushed
Flushed ==
  (IF hist.head = NoHead THEN <<>> ELSE <<hist.head>>) \o hist.arrived

\* C13 as stated: once a chunk has arrived or the tick has run, the Receiver
\* has been handed the upgradeHead once, first, and then every chunk in
\* arrival order.
C13_HeadExactlyOnce ==
  (~ws.firstTick \/ hist.arrived /= <<>>) => ws.rcv = Flushed

\* C13 (amended): the first of the tick and the first chunk to run on an
\* endpoint that is not CLOSED hands the Receiver the upgradeHead, once and
\* before any chunk, and every chunk reaches the Receiver in arrival order;
\* when the endpoint is CLOSED before either ran, the upgradeHead is
\* discarded and nothing is handed to the Receiver.
C13_HeadOnceUnlessClosed ==
  /\ ws.called => ws.rcv = Flushed
  /\ ~ws.called => ws.rcv = <<>> /\ hist.arrived = <<>>
  /\ (~ws.called /\ ~ws.firstTick) => ws.readyState = CLOSED

\* the first chunk arrived before the tick and was pushed behind the head
C13_Witness ==
  /\ ws.firstTick /\ last.op = "socketData"
  /\ ws.rcv = <<"h", "d1">>

(***************************************************************************)
(* terminate(), the peer's close frame and socket errors                   *)
(***************************************************************************)
\* C14: when terminate() returns on an endpoint with an attached socket, the
\* socket has been ended and readyState is CLOSED.
C14_TerminateForcesClosed ==
  [][(last'.op = "terminate" /\ ws.socket)
       => (ws'.socketEnded /\ ws'.readyState = CLOSED)]_vars

\* C16: a CLOSE(code, reason) reported in OPEN moves the endpoint to CLOSING,
\* records code and reason and hands the Sender exactly one close frame that
\* echoes them, without ending the socket; when that frame's write completes
\* a server ends the socket, while a client leaves the socket alone and arms
\* the close timer.
C16_PeerCloseReciprocated ==
  /\ []((last.op = "onclose" /\ last.pre = OPEN)
          => /\ ws.readyState = CLOSING /\ ws.closeReceived
             /\ ws.closeCode = last.code /\ ws.closeMessage = last.data
             /\ ws.out = <<Frame("close", last.code, last.data, ~ws.isServer,
                                 TRUE, "undefined")>>
             /\ ws.closeCb /\ ws.socket /\ ~ws.socketEnded /\ ~ws.closeTimer)
  /\ [][(last'.op = "closeCallback" /\ ws.closeReceived /\ ws.readyState = CLOSING)
         => IF ws.isServer
            THEN ws'.socketEnded \/ ws'.socketDestroyed
            ELSE /\ ws'.socketEnded = ws.socketEnded
                 /\ ws'.socketDestroyed = ws.socketDestroyed
                 /\ ws'.socket /\ ws'.closeTimer
                 /\ ws'.readyState = CLOSING]_vars

\* a client has echoed the peer's close(4000, "bye"), the write completed and
\* the client waits with the socket untouched
C16_Witness ==
  /\ last.op = "closeCallback" /\ ~ws.isServer /\ ws.closeReceived
  /\ ws.closeCode = 4000 /\ ws.closeMessage = "bye"
  /\ ws.readyState = CLOSING /\ ws.closeTimer /\ ~ws.socketEnded

\* C17: a socket error in OPEN forces CLOSED with close code 1006 and is
\* surfaced as exactly one `error` event; later errors reach no user
\* listener.
C17_SocketErrorSurfaced ==
  (last.op = "socketError" /\ last.pre = OPEN)
    => /\ ws.readyState = CLOSED /\ ws.closeCode = AbnormalClosure
       /\ Cardinality(Events(ws, "error")) = 1
       /\ ws.listeners = "noop"

C19_InvalidServerKey ==
  /\ (last.op = "reqUpgrade" /\ last.pre = CONNECTING
        /\ last.data = "invalid server key")
       => /\ ws.out = <<Event("error", NoCode, "invalid server key")>>
          /\ ws.socketEnded /\ ~ws.socket
          /\ ws.readyState = CONNECTING
  /\ ws.req = "done"
       => /\ ~ws.receiver /\ ~ws.sender
          /\ ws.readyState /= OPEN /\ ws.openEmits = 0

\* the response has just failed the key check
C19_Witness ==
  /\ last.op = "reqUpgrade" /\ last.data = "invalid server key"
  /\ Events(ws, "error") /= {} /\ ws.socketEnded /\ ws.req = "done"
  /\ ws.readyState = CONNECTING /\ ws.listeners = "none"

(***************************************************************************)
(* The opening handshake: a CONNECTING client (ws), the server (wss) that  *)
(* handles its upgrade request and the endpoint the server creates (peer). *)
(***************************************************************************)
Servers ==
  {NewServer(pmd, verify, protocols, tracking) :
     pmd \in BOOLEAN, verify \in VerifyOpts, protocols \in BOOLEAN,
     tracking \in BOOLEAN}

\* how far the server gets with a request: it is an upgrade to a supported
\* version, it passes verifyClient, handleProtocols, the negotiation of the
\* extension, and its response is written
WellFormed(req) ==
  /\ req.shouldHandle /\ req.upgrade /\ req.key
  /\ req.version \in {8, 13}

Verified(srv, req) ==
  WellFormed(req) /\ (srv.verifyClient /= "none" => req.verified)

Negotiable(srv, req) ==
  Verified(srv, req) /\ (srv.handleProtocols => req.protocolResult = "accept")

Writes(srv, req) ==
  Negotiable(srv, req) /\ ~acceptExtensionsThrows(srv, req)

Completes(srv, req) == Writes(srv, req) /\ ~req.writeThrows

\* requests are told apart only by what the server reads of them: the
\* answer of a hook it does not have or does not ask, and every part of the
\* request behind the check that fails, is left at its default
Asked(srv, req) ==
  /\ ~req.shouldHandle => req.upgrade
  /\ (~req.shouldHandle \/ ~req.upgrade) => req.key
  /\ (~req.shouldHandle \/ ~req.upgrade \/ ~req.key) => req.version = 13
  /\ (~WellFormed(req) \/ srv.verifyClient = "none") => req.verified
  /\ (srv.verifyClient /= "async" \/ req.verified) => req.verifyCode = NoCode
  /\ ~Verified(srv, req) => req.protocols = <<>>
  /\ (~Verified(srv, req) \/ ~srv.handleProtocols) => req.protocolResult = "accept"
  /\ (~Negotiable(srv, req) \/ ~srv.handleProtocols) => req.selected = NoProtocol
  /\ (~Negotiable(srv, req) \/ ~srv.perMessageDeflate) => req.offer = "none"
  /\ ~Writes(srv, req) => ~req.writeThrows
  /\ ~Completes(srv, req) => req.head = NoHead
  /\ (Writes(srv, req) \/ (WellFormed(req) /\ srv.verifyClient = "async"))
       => req.writable

\* the endpoint that `connection` carries
Created(srv, req, before) ==
  IF srv.reached = "connection"
  THEN Begin(initAsServerClient(req.head, srv.protocol)) ELSE before

\* code: the version, opt: the offer, data: the head, flag: socket writable
Handled(name, req) ==
  [op |-> name, who |-> "wss", pre |-> CONNECTING, code |-> req.version,
   data |-> req.head, opt |-> req.offer, flag |-> req.writable]

\* the server's http server emits 'upgrade' for the client's request
HandleUpgrade ==
  /\ wss.reached = "none" /\ wss.server
  /\ \E req \in Requests :
       /\ Asked(wss, req)
       /\ wss' = handleUpgrade(wss, req)
       /\ peer' = Created(wss', req, peer)
       /\ last' = Handled("handleUpgrade", req)
       /\ hist' = [hist EXCEPT !.request = <<req>>]
       /\ ws' = Begin(ws)
       /\ UNCHANGED <<net, hixie>>

\* the user's verifyClient calls its callback; the socket may have stopped
\* being writable since the request came
VerifyClientCallback ==
  /\ wss.pending /= NoRequest
  /\ \E writable \in BOOLEAN :
       LET req == [wss.pending[1] EXCEPT !.writable = writable]
       IN /\ writable => wss.pending[1].writable
          /\ Writes(wss, req) => writable
          /\ wss' = verifyClientCallback(wss, writable)
          /\ peer' = Created(wss', req, peer)
          /\ last' = Handled("verifyClientCallback", req)
          /\ hist' = [hist EXCEPT !.request = <<req>>]
          /\ ws' = Begin(ws)
          /\ UNCHANGED <<net, hixie>>

\* the 101 response reaches the client; the client can fail the extension
\* check only for a response that carries the extension
UpgradeArrives ==
  /\ wss.status = 101
  /\ ReqUpgrade
  /\ last'.data = "invalid extension parameter" => wss.extension

\* any other response reaches the client
ResponseArrives == wss.status \notin {0, 101} /\ ReqResponse

\* the client's request fails once the server has destroyed the socket
RequestFails == wss.socketDestroyed /\ ReqError

\* the socket of the created endpoint ends; the server's `close` listener
\* forgets a tracked client
CreatedSocketEnd ==
  /\ peer.isServer /\ peer.socket
  /\ peer' = cleanupWebsocketResources(Begin(peer), FALSE)
  /\ wss' = IF wss.clientTracking /\ Events(peer', "close") /= {}
            THEN [wss EXCEPT !.clients = @ - 1, !.out = <<>>]
            ELSE [wss EXCEPT !.out = <<>>]
  /\ last' = [op |-> "socketEnd", who |-> "peer", pre |-> peer.readyState,
              code |-> NoCode, data |-> "", opt |-> "undefined", flag |-> FALSE]
  /\ ws' = Begin(ws)
  /\ UNCHANGED <<net, hist, hixie>>

InitUpgrade ==
  /\ ws = NewClient
  /\ peer = NoPeer
  /\ net = NoNet
  /\ hist = NoHist
  /\ last = Constructed
  /\ wss \in Servers
  /\ hixie = NoReceiver

NextUpgrade ==
  \/ HandleUpgrade \/ VerifyClientCallback
  \/ UpgradeArrives \/ ResponseArrives \/ RequestFails
  \/ Terminate
  \/ CreatedSocketEnd

SpecUpgrade == InitUpgrade /\ [][NextUpgrade]_vars

\* the server has just dealt with a request and is done with it
Answered ==
  /\ last.op \in {"handleUpgrade", "verifyClientCallback"}
  /\ wss.pending = NoRequest

\* the request the server has just dealt with
TheRequest == hist.request[1]

\* C20: a request whose permessage-deflate offer the server cannot accept
\* has its socket destroyed, creates no endpoint and emits no `connection`,
\* and when it gets as far as the negotiation it is answered with status 400
\* (written if the socket is writable); when accepting the server's parameters fails on a CONNECTING
\* client it emits `error`, ends the socket and stays out of OPEN; an
\* endpoint exists on the server only after a 101, and a client is OPEN only
\* after one.
C20_ExtensionFailureRejects ==
  /\ (Answered /\ wss.perMessageDeflate /\ last.opt = "invalid")
       => /\ wss.socketDestroyed /\ wss.clients = 0
          /\ wss.status /= 101 /\ peer = NoPeer
          /\ \A i \in Outs(wss, "event") : wss.out[i].op /= "connection"
          /\ wss.reached = "acceptExtensions"
               => wss.out = IF last.flag THEN <<Response(400)>> ELSE <<>>
  /\ (last.op = "reqUpgrade" /\ last.pre = CONNECTING
        /\ last.data = "invalid extension parameter")
       => /\ ws.out = <<Event("error", NoCode, "invalid extension parameter")>>
          /\ ws.socketEnded /\ ~ws.socket /\ ~ws.receiver
          /\ ws.readyState = CONNECTING /\ ws.openEmits = 0
  /\ peer /= NoPeer => wss.status = 101
  /\ ws.readyState = OPEN => (wss.status = 101 /\ ws.req = "detached")

\* the server has just refused an offer it could not accept
C20_Witness ==
  /\ last.op = "handleUpgrade" /\ last.opt = "invalid" /\ last.flag
  /\ wss.reached = "acceptExtensions" /\ wss.status = 400
  /\ wss.socketDestroyed /\ peer = NoPeer

(***************************************************************************)
(* The server's hooks: verifyClient and handleProtocols                    *)
(***************************************************************************)
\* what abortConnection does to the socket of the request
Aborted(code) ==
  /\ wss.socketDestroyed
  /\ wss.out = IF TheRequest.writable THEN <<Response(code)>> ELSE <<>>
  /\ wss.status = IF TheRequest.writable THEN code ELSE 0

\* no WebSocket was created for the request and no `connection` emitted
NothingCreated ==
  /\ peer = NoPeer /\ wss.clients = 0
  /\ \A i \in Outs(wss, "event") : wss.out[i].op /= "connection"

\* the steps of handleHybiUpgrade behind verifyClient
PastVerify == {"handleProtocols", "acceptExtensions", "write", "connection"}

\* C21: a request that verifyClient rejects, by returning false (one
\* argument) or by calling back with result false (two arguments), has its
\* socket destroyed after the response with the supplied code, else 401, was
\* written to it (if it is writable), and no WebSocket is created and no
\* `connection` emitted for it; without verifyClient every well-formed
\* request goes on to protocol selection.
C21_VerifyClientRejects ==
  /\ (Answered /\ WellFormed(TheRequest) /\ wss.verifyClient /= "none"
        /\ ~TheRequest.verified)
       => /\ Aborted(IF wss.verifyClient = "async" /\ TheRequest.verifyCode /= NoCode
                     THEN TheRequest.verifyCode ELSE 401)
          /\ NothingCreated
          /\ wss.reached = "verifyClient"
  /\ (Answered /\ WellFormed(TheRequest) /\ wss.verifyClient = "none")
       => wss.reached \in PastVerify
  /\ wss.pending /= NoRequest
       => /\ wss.verifyClient = "async" /\ WellFormed(wss.pending[1])
          /\ ~wss.socketDestroyed /\ wss.out = <<>> /\ NothingCreated

\* a two-argument verifyClient has just called back with (false, 403)
C21_Witness ==
  /\ last.op = "verifyClientCallback" /\ Answered
  /\ ~TheRequest.verified /\ TheRequest.verifyCode = 403
  /\ wss.out = <<Response(403)>> /\ wss.socketDestroyed /\ peer = NoPeer

\* the protocol the server is to answer with
Selected(srv, req) ==
  IF srv.handleProtocols THEN req.selected ELSE FirstOffered(req.protocols)

Slots == {"ws", "peer"}

\* an exception raised by a listener of the user
Raised == [Throw EXCEPT !.op = "listener"]

\* cleanupWebsocketResources when a `close` listener of the user throws:
\* the exception leaves emit and the function behind it is not run
cleanupThrows(w, error) ==
  IF w.readyState = CLOSED THEN w
  ELSE
    LET code == IF error \/ ~w.closeReceived THEN AbnormalClosure ELSE w.closeCode
        w1 == [w EXCEPT !.readyState = CLOSED, !.closeTimer = FALSE, !.closeCode = code]
    IN Put(Emit(w1, "close", IF code = NoCode THEN NormalClosure ELSE code,
                w.closeMessage), Raised)

\* terminate() of an endpoint with a `close` listener that may throw
terminateWith(w, endThrows, listenerThrows) ==
  IF ~listenerThrows THEN terminate(w, endThrows)
  ELSE IF w.readyState = CLOSED THEN w
  ELSE IF w.socket THEN
    LET w1 == [w EXCEPT !.readyState = CLOSING]
    IN IF endThrows THEN cleanupThrows(w1, TRUE)
       ELSE [w1 EXCEPT !.socketEnded = TRUE, !.closeTimer = TRUE]
  ELSE IF w.readyState = CONNECTING THEN cleanupThrows(w, TRUE)
  ELSE w

\* the endpoint is in this.clients
Tracked(srv, w) == srv.clientTracking /\ w.isServer /\ w.closeEmits = 0

\* faulty variant: no `close` listener removes the endpoint from clients
forget_never(srv, before, after) == srv

\* `client.on('close', () => this.clients.delete(client))`
forget(srv, before, after) ==
  IF Tracked(srv, before) /\ Events(after, "close") /= {}
  THEN [srv EXCEPT !.clients = @ - 1] ELSE srv

\* faulty variant: the listener for 'upgrade' stays on the http server
serverClose_keepsListening(srv, hasCb, error) ==
  LET s0 == [srv EXCEPT !.out = <<>>]
  IN IF hasCb THEN Put(s0, Callback(IF error THEN "error" ELSE "ok"))
     ELSE IF error THEN Put(s0, Raised)
     ELSE s0

\* WebSocketServer.prototype.close behind its loop over the clients; error:
\* a terminate() threw
serverClose(srv, hasCb, error) ==
  LET s0 == [srv EXCEPT !.server = FALSE, !.out = <<>>]
  IN IF hasCb THEN Put(s0, Callback(IF error THEN "error" ELSE "ok"))
     ELSE IF error THEN Put(s0, Raised)
     ELSE s0

\* the http server emits 'upgrade': the server handles it while it listens
upgradeEvent(srv, req) ==
  IF srv.server THEN handleUpgrade(srv, req)
  ELSE [srv EXCEPT !.out = <<>>, !.socketDestroyed = FALSE, !.status = 0,
                   !.extension = FALSE, !.protocol = NoProtocol,
                   !.reached = "none"]

\* a request that a server without hooks accepts: no sub-protocols, no
\* offer, no head
PlainRequest ==
  [shouldHandle |-> TRUE, upgrade |-> TRUE, key |-> TRUE, version |-> 13,
   offer |-> "none", verified |-> TRUE, verifyCode |-> NoCode,
   protocols |-> <<>>, protocolResult |-> "accept", selected |-> NoProtocol,
   writable |-> TRUE, writeThrows |-> FALSE, head |-> NoHead]

\* the requests of this model: accepted, without a key, with a response
\* that cannot be written
PlainRequests ==
  {PlainRequest, [PlainRequest EXCEPT !.key = FALSE],
   [PlainRequest EXCEPT !.writeThrows = TRUE]}

ServerOp(name, flag) ==
  [op |-> name, who |-> "wss", pre |-> CONNECTING, code |-> NoCode, data |-> "",
   opt |-> "undefined", flag |-> flag]

\* flag: the server was listening
HttpUpgrade ==
  /\ ws = NoPeer \/ peer = NoPeer \/ ~wss.server
  /\ \E req \in PlainRequests :
       LET srv == upgradeEvent(wss, req)
           client == Begin(initAsServerClient(req.head, srv.protocol))
           made == srv.reached = "connection"
       IN /\ wss' = srv
          /\ ws' = IF made /\ ws = NoPeer THEN client ELSE Begin(ws)
          /\ peer' = IF made /\ ws /= NoPeer THEN client ELSE Begin(peer)
          /\ last' = ServerOp("upgrade", wss.server)
          /\ UNCHANGED <<net, hist, hixie>>

\* a step of one of the created endpoints
Does(slot, name, w1) ==
  LET w == IF slot = "ws" THEN ws ELSE peer
  IN /\ w /= NoPeer
     /\ ws' = IF slot = "ws" THEN w1 ELSE Begin(ws)
     /\ peer' = IF slot = "peer" THEN w1 ELSE Begin(peer)
     /\ wss' = forget([wss EXCEPT !.out = <<>>], w, w1)
     /\ last' = [op |-> name, who |-> slot, pre |-> w.readyState, code |-> NoCode,
                 data |-> "", opt |-> "undefined", flag |-> FALSE]
     /\ UNCHANGED <<net, hist, hixie>>

At2(slot) == Begin(IF slot = "ws" THEN ws ELSE peer)

CreatedClose ==
  \E slot \in Slots :
    /\ At2(slot).isServer
    /\ Does(slot, "close", close(At2(slot), NormalClosure, "", FALSE))

CreatedCloseCallback ==
  \E slot \in Slots :
    /\ At2(slot).closeCb
    /\ Does(slot, "closeCallback",
            closeCallback([At2(slot) EXCEPT !.closeCb = FALSE], FALSE, FALSE))

CreatedRecvClose ==
  \E slot \in Slots :
    /\ Receiving(At2(slot))
    /\ Does(slot, "onclose", onclose(At2(slot), NormalClosure, "", FALSE))

CreatedEnd ==
  \E slot \in Slots :
    /\ At2(slot).socket
    /\ Does(slot, "socketEnd", cleanupWebsocketResources(At2(slot), FALSE))

\* server.close(cb); flag: a callback was given
ServerClose ==
  \E hasCb \in BOOLEAN, endThrows \in [Slots -> BOOLEAN],
     listenerThrows \in [Slots -> BOOLEAN] :
    LET inSet == [slot \in Slots |->
                    Tracked(wss, IF slot = "ws" THEN ws ELSE peer)]
        after == [slot \in Slots |->
                    IF inSet[slot]
                    THEN terminateWith(At2(slot), endThrows[slot],
                                       listenerThrows[slot])
                    ELSE At2(slot)]
        error == \E slot \in Slots : inSet[slot] /\ Thrown(after[slot])
    IN /\ \A slot \in Slots :
            /\ listenerThrows[slot] => endThrows[slot]
            /\ endThrows[slot] => inSet[slot]
       /\ ws' = after["ws"]
       /\ peer' = after["peer"]
       /\ wss' = serverClose(forget(forget(wss, ws, after["ws"]), peer,
                                    after["peer"]), hasCb, error)
       /\ last' = ServerOp("serverClose", hasCb)
       /\ hist' = [hist EXCEPT !.called = TRUE]
       /\ UNCHANGED <<net, hixie>>

InitServer ==
  /\ ws = NoPeer
  /\ peer = NoPeer
  /\ net = NoNet
  /\ hist = NoHist
  /\ last = Constructed
  /\ wss \in {NewServer(FALSE, "none", FALSE, tracking) : tracking \in BOOLEAN}
  /\ hixie = NoReceiver

NextServer ==
  \/ HttpUpgrade \/ ServerClose
  \/ CreatedClose \/ CreatedCloseCallback \/ CreatedRecvClose \/ CreatedEnd

SpecServer == InitServer /\ [][NextServer]_vars

\* the endpoints in this.clients
InClients == {w \in {ws, peer} : Tracked(wss, w)}

\* C23: when server.close() returns, every endpoint that was in clients is
\* CLOSING with its socket ended and the close timer armed, or CLOSED, also
\* behind an endpoint whose terminate() threw; a callback is called exactly
\* once, with an error iff a terminate() threw; and no upgrade event that
\* the http server emits after close() creates an endpoint or emits
\* `connection`.
C23_ServerCloseTerminatesAll ==
  /\ [](wss.clientTracking => wss.clients = Cardinality({s \in Slots :
          Tracked(wss, IF s = "ws" THEN ws ELSE peer)}))
  /\ [][last'.op = "serverClose"
         => /\ Tracked(wss, ws)
                 => \/ ws'.readyState = CLOSED
                    \/ ws'.readyState = CLOSING /\ ws'.socketEnded /\ ws'.closeTimer
            /\ Tracked(wss, peer)
                 => \/ peer'.readyState = CLOSED
                    \/ peer'.readyState = CLOSING /\ peer'.socketEnded
                         /\ peer'.closeTimer
            /\ last'.flag
                 => wss'.out =
                      <<Callback(IF \/ Tracked(wss, ws) /\ Thrown(ws')
                                    \/ Tracked(wss, peer) /\ Thrown(peer')
                                 THEN "error" ELSE "ok")>>]_vars
  /\ [][(hist.called /\ last'.op = "upgrade")
         => /\ \A i \in Outs(wss', "event") : wss'.out[i].op /= "connection"
            /\ wss'.clients = wss.clients
            /\ ws' = Begin(ws) /\ peer' = Begin(peer)]_vars

\* close() of a server with two OPEN clients: terminating the first threw,
\* the second was terminated all the same and the callback got the error
C23_Witness ==
  /\ last.op = "serverClose" /\ last.flag
  /\ ws.readyState = CLOSED /\ Thrown(ws)
  /\ peer.readyState = CLOSING /\ peer.socketEnded /\ peer.closeTimer
  /\ wss.out = <<Callback("error")>> /\ wss.clients = 1

(***************************************************************************)
(* The order of the ready states                                           *)
(***************************************************************************)
\* C24: readyState is one of CONNECTING, OPEN, CLOSING, CLOSED and no step
\* takes it to an earlier one, a CLOSED endpoint stays CLOSED, and close()
\* or terminate() on a CONNECTING endpoint leaves it CLOSED, so that it is
\* never OPEN afterwards.
C24_ReadyStateForward ==
  /\ [](ws.readyState \in {CONNECTING, OPEN, CLOSING, CLOSED})
  /\ [][ws'.readyState >= ws.readyState]_vars
  /\ [][ws.readyState = CLOSED => ws'.readyState = CLOSED]_vars
  /\ []((last.op \in {"close", "terminate"} /\ last.pre = CONNECTING)
          => ws.readyState = CLOSED)
  /\ [][(ws.readyState /= CONNECTING) => (ws'.openEmits = ws.openEmits)]_vars

\* the server accepted the upgrade of a client that had been terminated
\* while CONNECTING: the client stays CLOSED
C24_Witness ==
  /\ last.op = "reqUpgrade" /\ last.pre = CLOSED /\ last.flag
  /\ ws.readyState = CLOSED /\ ws.closeCode = AbnormalClosure
  /\ ws.openEmits = 0 /\ ~ws.socket

(***************************************************************************)
(* Inbound frames while the endpoint is CLOSING                            *)
(***************************************************************************)
\* C25: no step emits `message` on an endpoint that is CLOSING or CLOSED.
C25_NoMessageWhenClosing ==
  ws.readyState \in {CLOSING, CLOSED} => Events(ws, "message") = {}

\* the peer's close frame reaches an endpoint that is CLOSING, has not
\* received a close frame and has not ended its socket
AnsweredClose ==
  /\ last'.op = "onclose"
  /\ ws.readyState = CLOSING /\ ~ws.closeReceived
  /\ ~ws.socketEnded /\ ~ws.socketDestroyed

\* C26 as stated: a CLOSING endpoint keeps its Receiver on the socket, and
\* when the peer's close frame arrives the endpoint, server or client, ends
\* its socket in that step.
C26_PeerCloseEndsSocket ==
  /\ [](ws.readyState = CLOSING => Receiving(ws))
  /\ [][AnsweredClose => (ws'.socketEnded \/ ws'.socketDestroyed)]_vars

\* C26 (amended): a CLOSING endpoint keeps its Receiver on the socket; when
\* the peer's close frame arrives a server endpoint ends its socket in that
\* step, while a client endpoint only records that the close frame was
\* received and leaves the socket as it is, staying CLOSING until the
\* socket ends or the close timer fires.
C26_PeerCloseEndsServerSocket ==
  /\ [](ws.readyState = CLOSING => Receiving(ws))
  /\ [][AnsweredClose
         => /\ ws'.closeReceived
            /\ Frames(ws') = {}
            /\ IF ws.isServer
               THEN ws'.socketEnded \/ ws'.socketDestroyed
               ELSE ws' = [ws EXCEPT !.closeReceived = TRUE, !.out = <<>>]]_vars

\* a client that closed with (4000, "bye") has just been answered by a close
\* frame with another code: its socket is still attached and not ended
C26_Witness ==
  /\ last.op = "onclose" /\ last.pre = CLOSING /\ last.code = NormalClosure
  /\ ~ws.isServer /\ ws.closeReceived
  /\ ws.closeCode = 4000 /\ ws.closeMessage = "bye"
  /\ ws.readyState = CLOSING /\ ws.socket /\ ~ws.socketEnded

(***************************************************************************)
(* Pings during a streamed message: an established endpoint whose user     *)
(* streams messages while pings arrive.  net.c2s holds every frame handed  *)
(* to the Sender, data and control, in order; hist.order the calls of the  *)
(* stream handles as <<payload, final>>, the k-th payload being "f<k>";    *)
(* hist.arrived the payloads of the pings, the k-th being "d<k>".          *)
(***************************************************************************)
Fragments == <<"f1", "f2", "f3", "f4">>

DataFrames(q) == SelectSeq(q, IsData)

\* a step of the endpoint with everything it handed to the Sender
Wired(name, w1, data, flag) ==
  /\ ws' = w1
  /\ net' = [net EXCEPT !.c2s = @ \o SelectSeq(w1.out, IsFrame)]
  /\ last' = Op(name, ws, NoCode, data, "undefined", flag)
  /\ UNCHANGED <<peer, wss, hixie>>

PongStream ==
  /\ ~ws.hasQueue
  /\ Wired("stream", stream(Begin(ws), "undefined", TRUE), "", TRUE)
  /\ hist' = hist

\* flag: final
PongStreamSend ==
  \E final \in BOOLEAN :
    LET data == Fragments[Len(hist.order) + 1]
    IN /\ ws.streamOn /\ Len(hist.order) < MaxCalls
       /\ final \/ Trailing(DataFrames(net.c2s)) < MaxFrags
       /\ Wired("streamSend", streamSend(Begin(ws), data, final), data, final)
       /\ hist' = [hist EXCEPT !.order =
                     IF ws.readyState = OPEN THEN Append(@, <<data, final>>) ELSE @]

\* the Receiver reports a ping
PongPing ==
  LET data == Chunks[Len(hist.arrived) + 1]
  IN /\ Len(hist.arrived) < MaxChunks
     /\ Receiving(ws)
     /\ Wired("onping", onping(Begin(ws), data), data, FALSE)
     /\ hist' = [hist EXCEPT !.arrived = Append(@, data)]

PongClose ==
  /\ ws.readyState = OPEN
  /\ ws' = close(Begin(ws), NormalClosure, "", FALSE)
  /\ last' = Op("close", ws, NormalClosure, "", "undefined", FALSE)
  /\ UNCHANGED <<peer, net, hist, wss, hixie>>

InitPong ==
  /\ ws \in {Begin(reqUpgrade(NewClient, Accept, NoHead)), Begin(NewServerClient)}
  /\ peer = NoPeer
  /\ net = NoNet
  /\ hist = NoHist
  /\ last = Constructed
  /\ wss = NoServer
  /\ hixie = NoReceiver

NextPong == PongStream \/ PongStreamSend \/ PongPing \/ PongClose

SpecPong == InitPong /\ [][NextPong]_vars

\* payload and FIN of each frame
Shape(q) == [i \in 1..Len(q) |-> <<q[i].data, q[i].fin>>]

\* C27: a PING reported in OPEN hands the Sender exactly one whole PONG with
\* the ping's payload and changes neither the stream in progress nor the
\* send queue; the data frames handed to the Sender are, in order and with
\* the same FIN bits, the fragments the user gave to the stream handles, so
\* that every control frame lies between two whole frames and the peer
\* reassembles the same messages.
C27_PongBetweenFragments ==
  /\ []((last.op = "onping" /\ last.pre = OPEN)
          => /\ Len(ws.out) = 2
             /\ ws.out[1].t = "frame" /\ ws.out[1].op = "pong"
             /\ ws.out[1].data = last.data /\ ws.out[1].fin
             /\ ws.out[2] = Event("ping", NoCode, last.data))
  /\ [][last'.op = "onping"
         => /\ ws'.streamOn = ws.streamOn /\ ws'.streamMask = ws.streamMask
            /\ ws'.hasQueue = ws.hasQueue /\ ws'.queue = ws.queue
            /\ DataFrames(net'.c2s) = DataFrames(net.c2s)
            /\ (ws.readyState = OPEN => Len(net'.c2s) = Len(net.c2s) + 1)]_vars
  /\ [](Shape(DataFrames(net.c2s)) = hist.order)
  /\ [](\A i \in 1..Len(net.c2s) :
          ~IsData(net.c2s[i])
            => /\ net.c2s[i].op = "pong" /\ net.c2s[i].fin
               /\ \E k \in 1..Len(hist.arrived) :
                    net.c2s[i].data = hist.arrived[k])

\* a pong went out between the first and the final fragment of a message
C27_Witness ==
  /\ Len(net.c2s) = 3
  /\ IsData(net.c2s[1]) /\ ~net.c2s[1].fin /\ net.c2s[1].data = "f1"
  /\ net.c2s[2].op = "pong" /\ net.c2s[2].data = "d1"
  /\ IsData(net.c2s[3]) /\ net.c2s[3].fin /\ net.c2s[3].data = "f2"
  /\ ~ws.streamOn /\ ~ws.hasQueue

(***************************************************************************)
(* Draining the send queue: the serialization model for an endpoint that   *)
(* stays OPEN, whose user finishes every streamed message and whose        *)
(* readables end.                                                          *)
(***************************************************************************)
\* the user gives the final fragment to the handle of the active stream
FinalFragment ==
  /\ ws.streamOn /\ UserRuns
  /\ Serial("streamSend", streamSend(Begin(ws), StreamData, TRUE), StreamData,
            TRUE, <<>>)

NextDrain ==
  \/ SerialSend \/ SerialStream \/ SerialStreamSend
  \/ ReadableData \/ ReadableEnd \/ Tock

\* an active stream is finalized, an attached readable ends, a scheduled
\* tick runs
SpecDrain ==
  /\ InitSerial /\ [][NextDrain]_vars
  /\ WF_vars(FinalFragment) /\ WF_vars(ReadableEnd) /\ WF_vars(Tock)

\* a message is being streamed, or the tick behind a readable is scheduled
StreamActive == ws.streamOn \/ ws.readable /= Null \/ ws.tick

ExchangedClose(w) ==
  /\ w.readyState = CLOSING /\ w.closeTimer /\ w.closeReceived
  /\ ~w.isServer /\ ~w.closeCb /\ w.socket /\ ~w.socketEnded

\* C29: when the close timer expires on an endpoint that has both sent and
\* received a close frame, the `close` event emitted on expiry carries the
\* recorded close code and reason, not 1006.
C29_TimerKeepsExchangedCode ==
  [][(last'.op = "timer" /\ ExchangedClose(ws))
       => /\ Events(ws', "close") /= {}
          /\ \A i \in Events(ws', "close") :
               /\ ws'.out[i].code =
                    (IF ws.closeCode = NoCode THEN NormalClosure ELSE ws.closeCode)
               /\ ws'.out[i].data = ws.closeMessage]_vars

\* C30: a close(code, reason) call on an OPEN endpoint whose code the Sender
\* rejects leaves the endpoint as it was: readyState stays OPEN and the
\* recorded close code and reason are unchanged once the error is reported.
C30_RejectedCloseKeepsState ==
  [][(last'.op = "close" /\ ws.readyState = OPEN /\ SenderCloseThrows(last'.code))
       => /\ ws'.readyState = OPEN
          /\ ws'.closeCode = ws.closeCode
          /\ ws'.closeMessage = ws.closeMessage]_vars

(***************************************************************************)
(* The Hixie Receiver fed with a framed byte stream, chunk by chunk        *)
(***************************************************************************)
\* the bytes that uninitialized memory is drawn from
HixieBytes == {0, 1, 97, 128, 255}

\* what is left to the runtime: it is one runtime throughout, and memory may
\* hold other bytes at every call
Env(fill) == [fill |-> fill, strict |-> hixie.strict]

\* payload of a text frame: no 0xFF in it
TextPayloads == {<<>>, <<97>>, <<97, 1>>}

\* body of a length-prefixed frame: any bytes
BinaryBodies == {<<>>, <<97>>, <<255, 0>>}

TextFrame(payload) == <<0>> \o payload \o <<255>>

BinaryFrame(body) == <<128, Len(body)>> \o body

CloseSequence == <<255, 0>>

DataFrames1 ==
  {TextFrame(p) : p \in TextPayloads} \cup {BinaryFrame(b) : b \in BinaryBodies}

\* one or two data frames, then perhaps the close sequence; or the close
\* sequence alone
FramedStreams ==
  LET data == DataFrames1 \cup {f \o g : f \in DataFrames1, g \in DataFrames1}
  IN data \cup {d \o CloseSequence : d \in data} \cup {CloseSequence}

ReceiverOp(name) == [Constructed EXCEPT !.op = name, !.who = "receiver"]

\* the socket hands the next bytes of the stream to add, in a chunk of any
\* length
HixieAdd ==
  /\ hixie.rest /= <<>>
  /\ \E k \in 1..Len(hixie.rest), fill \in HixieBytes :
       LET r1 == add([hixie.r EXCEPT !.out = <<>>], SubSeq(hixie.rest, 1, k),
                     Env(fill))
       IN hixie' = [hixie EXCEPT !.r = r1,
                                 !.rest = SubSeq(@, k + 1, Len(@)),
                                 !.events = @ \o r1.out]
  /\ last' = ReceiverOp("add")
  /\ UNCHANGED <<ws, peer, net, hist, wss>>

HixieCleanup ==
  /\ ~hixie.r.dead
  /\ hixie' = [hixie EXCEPT !.r = cleanup([@ EXCEPT !.out = <<>>])]
  /\ last' = ReceiverOp("cleanup")
  /\ UNCHANGED <<ws, peer, net, hist, wss>>

InitReceiver ==
  /\ ws = NewClient
  /\ peer = NoPeer
  /\ net = NoNet
  /\ hist = NoHist
  /\ last = Constructed
  /\ wss = NoServer
  /\ hixie \in {[r |-> NewReceiver, strict |-> strict, stream |-> s, rest |-> s,
                 events |-> <<>>] : s \in FramedStreams, strict \in BOOLEAN}

NextReceiver == HixieAdd \/ HixieCleanup

SpecReceiver == InitReceiver /\ [][NextReceiver]_vars

\* the fields of the Receiver
Fields(r) == <<r.state, r.buffers, r.messageEnd, r.spanLength, r.dead>>

\* C31: an add call made after cleanup changes no field of the Receiver and
\* invokes no callback.
C31_AddAfterCleanupIsNoOp ==
  [][(hixie.r.dead /\ last'.op = "add")
       => Fields(hixie'.r) = Fields(hixie.r) /\ hixie'.r.out = <<>>]_vars

\* the text, close and error events among the callbacks
Reported(events) ==
  SelectSeq(events, LAMBDA e : e.op \in {"text", "close", "error"})

\* C32: once a framed stream has been fed whole to a Receiver that was not
\* cleaned up, in chunks cut at any byte boundaries, the events reported are
\* those that the stream fed as one chunk yields.
C32_ChunkInvariance ==
  (hixie.stream /= <<>> /\ hixie.rest = <<>> /\ ~hixie.r.dead)
    => \E fill \in HixieBytes :
         Reported(hixie.events)
           = Reported(add(NewReceiver, hixie.stream, Env(fill)).out)

(***************************************************************************)
(* Close frames, the close timer and the events after `close`              *)
(***************************************************************************)
\* the close frames among the outputs of the last handler
CloseFrames(w) == {i \in Frames(w) : w.out[i].op = "close"}

\* C33: a close frame is handed to the Sender only by a step that takes the
\* endpoint from OPEN to CLOSING, and such a step hands over exactly one;
\* OPEN is never entered again, so an endpoint hands over at most one close
\* frame, and close() while CLOSING or CLOSED hands over none.
C33_OneCloseFrame ==
  /\ [][CloseFrames(ws') /= {}
          => /\ ws.readyState = OPEN /\ ws'.readyState = CLOSING
             /\ Cardinality(CloseFrames(ws')) = 1]_vars
  /\ [][ws.readyState \in {CLOSING, CLOSED} => ws'.readyState /= OPEN]_vars
  /\ []((last.op \in {"close", "onclose", "onerror", "senderError"}
           /\ last.pre \in {CLOSING, CLOSED}) => CloseFrames(ws) = {})

\* close() is called again while the first close frame is still with the
\* Sender: nothing is handed over
C33_Witness ==
  /\ last.op = "close" /\ last.pre = CLOSING /\ ~SenderCloseThrows(last.code)
  /\ ws.closeCb /\ ws.readyState = CLOSING /\ ws.out = <<>>

\* C34: no close timer is armed on an endpoint that is CLOSED.
C34_NoTimerWhenClosed == ws.readyState = CLOSED => ~ws.closeTimer

\* an endpoint from its establishment on: the tick that flushes the
\* upgradeHead, the socket's data, end and timer, what the Receiver reports,
\* and the user's calls
NextLast ==
  \/ FirstTick \/ SocketData \/ HeadSocketEnd \/ HeadTimerExpiry
  \/ Close \/ Terminate \/ CloseCallback \/ Send
  \/ RecvMessage \/ RecvPing \/ RecvPong

SpecLast == InitHead /\ [][NextLast]_vars

handleProtocolsCallback(srv, req, result, protocol) ==
  LET s0 == [srv EXCEPT !.out = <<>>]
  IN IF ~result THEN abortConnection(s0, req, 401)
     ELSE completeHybiUpgrade2(s0, req, protocol)

\* whether a step of the server destroys the socket of the request
Destroys(srv1) == IF srv1.socketDestroyed THEN 1 ELSE 0

\* the `connection` events of a step: the calls of cb(client)
Connections(srv1) ==
  Cardinality({i \in Outs(srv1, "event") : srv1.out[i].op = "connection"})

\* a step of the server on the request; probe: the same step taken on a
\* socket that was not destroyed before
Outcome(name, srv1, probe, req) ==
  /\ wss' = srv1
  /\ peer' = Created(srv1, req, peer)
  /\ last' = Handled(name, req)
  /\ hist' = [hist EXCEPT !.request = <<req>>,
                          !.aborts = @ + Destroys(probe),
                          !.connections = @ + Connections(srv1)]
  /\ ws' = Begin(ws)
  /\ UNCHANGED <<net, hixie>>

Intact(srv) == [srv EXCEPT !.socketDestroyed = FALSE]

OutcomeUpgrade ==
  /\ wss.reached = "none" /\ wss.server
  /\ \E req \in Requests :
       /\ Asked(wss, req)
       /\ Outcome("handleUpgrade", handleUpgrade(wss, req),
                  handleUpgrade(Intact(wss), req), req)

\* the socket is writable only if it was, and nobody destroyed it
StillWritable(writable) ==
  writable => (hist.request[1].writable /\ ~wss.socketDestroyed)

\* verifyClient calls its callback for the first time
OutcomeVerify ==
  /\ wss.pending /= NoRequest
  /\ \E writable \in BOOLEAN :
       /\ StillWritable(writable)
       /\ Outcome("verifyClientCallback", verifyClientCallback(wss, writable),
                  verifyClientCallback(Intact(wss), writable),
                  [wss.pending[1] EXCEPT !.writable = writable])

\* verifyClient calls its callback once more, with any result
OutcomeVerifyAgain ==
  /\ wss.verifyClient = "async" /\ wss.pending = NoRequest
  /\ hist.request /= NoRequest /\ WellFormed(hist.request[1])
  /\ last.op = "verifyClientCallback"
  /\ \E writable \in BOOLEAN, result \in BOOLEAN :
       LET again == [wss EXCEPT
                       !.pending = <<[hist.request[1] EXCEPT !.verified = result]>>]
       IN /\ StillWritable(writable)
          /\ Outcome("verifyClientCallbackAgain",
                     verifyClientCallback(again, writable),
                     verifyClientCallback(Intact(again), writable),
                     [again.pending[1] EXCEPT !.writable = writable])

\* handleProtocols calls its callback after it has returned, that is after
\* the server answered 501
OutcomeProtocols ==
  /\ wss.handleProtocols /\ wss.pending = NoRequest
  /\ wss.reached = "handleProtocols"
  /\ hist.request /= NoRequest /\ hist.request[1].protocolResult = "never"
  /\ last.op \in {"handleUpgrade", "verifyClientCallback"}
  /\ \E result \in BOOLEAN, protocol \in Protocols \cup {NoProtocol},
        writeThrows \in BOOLEAN :
       LET req == [hist.request[1] EXCEPT !.writable = FALSE,
                                          !.writeThrows = writeThrows]
       IN Outcome("handleProtocolsCallback",
                  handleProtocolsCallback(wss, req, result, protocol),
                  handleProtocolsCallback(Intact(wss), req, result, protocol),
                  req)

NextOutcome ==
  OutcomeUpgrade \/ OutcomeVerify \/ OutcomeVerifyAgain \/ OutcomeProtocols

SpecOutcome == InitUpgrade /\ [][NextOutcome]_vars

\* C36: a request never has its socket destroyed by the server and a
\* WebSocket handed to the callback as well, no request is aborted twice or
\* yields two WebSockets, and a request that the server has dealt with has
\* one of the two outcomes.
C36_OneOutcome ==
  /\ hist.aborts + hist.connections <= 1
  /\ (hist.request /= NoRequest /\ wss.pending = NoRequest)
       => hist.aborts + hist.connections = 1

(***************************************************************************)
(* The set of clients of a server                                          *)
(***************************************************************************)
\* the endpoints that the server created
CreatedSlots == {w \in {ws, peer} : w.isServer}

\* C37: with client tracking the clients of the server are the endpoints it
\* created that are not CLOSED, and these are the ones that have not emitted
\* `close`; an endpoint is added when it is created; without client tracking
\* there are no clients.
C37_ClientsAreLive ==
  /\ [](\A w \in CreatedSlots :
          /\ w.readyState = CLOSED <=> w.closeEmits = 1
          /\ w.readyState /= CLOSED <=> w.closeEmits = 0
          /\ w.readyState = CLOSED => ~Tracked(wss, w))
  /\ [](wss.clients = IF wss.clientTracking
                      THEN (IF ws.isServer /\ ws.readyState /= CLOSED THEN 1 ELSE 0)
                           + (IF peer.isServer /\ peer.readyState /= CLOSED
                              THEN 1 ELSE 0)
                      ELSE 0)
  /\ [][(last'.op = "upgrade" /\ wss'.reached = "connection" /\ wss.clientTracking)
         => wss'.clients = wss.clients + 1]_vars

\* of two tracked clients the first has closed and left the set
C37_Witness ==
  /\ wss.clientTracking /\ wss.clients = 1
  /\ ws.isServer /\ ws.readyState = CLOSED /\ ws.closeEmits = 1
  /\ peer.isServer /\ peer.readyState = OPEN
  /\ last.op = "socketEnd" /\ last.who = "ws"

(***************************************************************************)
(* Termination                                                             *)
(***************************************************************************)
\* the whole lifecycle, with a close timer that fires once it is armed; the
\* socket may or may not report its end
SpecTerminate == Init /\ [][Next]_vars /\ WF_vars(TimerExpiry)

\* C38: after terminate() on an endpoint that is not CLOSED the endpoint
\* becomes CLOSED and has emitted `close`.
C38_TerminateCloses ==
  (last.op = "terminate" /\ last.pre /= CLOSED)
    ~> (ws.readyState = CLOSED /\ ws.closeEmits >= 1)

\* the socket that terminate() ended never reported its end: the timer
\* closed the endpoint
C38_Witness ==
  /\ last.op = "timer" /\ last.pre = CLOSING
  /\ ws.socketEnded /\ ~ws.closeReceived
  /\ ws.readyState = CLOSED /\ ws.closeEmits = 1
  /\ ws.closeCode = AbnormalClosure

(***************************************************************************)
(* send() of a readable with a completion callback, on an endpoint that    *)
(* may leave OPEN while the readable emits.  hist.chunks counts the 'data' *)
(* events of the readable, hist.callbacks the calls of the user's callback *)
(***************************************************************************)
\* the calls of the user's callback in a handler run
Callbacks(w) == Cardinality(Outs(w, "cb"))

Readable(name, w1, data) ==
  /\ ws' = w1
  /\ hist' = [hist EXCEPT !.callbacks = @ + Callbacks(w1),
                          !.chunks = IF name = "readableData" THEN @ + 1 ELSE @,
                          !.order = IF name = "send" THEN <<data>> ELSE @]
  /\ last' = Op(name, ws, NoCode, data, "undefined", TRUE)
  /\ UNCHANGED <<peer, net, wss, hixie>>

\* ws.send(readable, cb)
ReadableSend ==
  /\ hist.order = <<>> /\ ws.readyState = OPEN
  /\ Readable("send", send(Begin(ws), ReadableLabel[1], "undefined", TRUE),
              ReadableLabel[1])

ReadableChunk ==
  /\ ws.readable /= Null /\ ~ws.tick
  /\ hist.chunks < MaxFrags
  /\ Readable("readableData", readableData(Begin(ws), ws.readable), ws.readable)

ReadableEnds ==
  /\ ws.readable /= Null /\ ~ws.tick
  /\ Readable("readableEnd", readableEnd(Begin(ws)), ws.readable)

ReadableTock == ws.tick /\ Readable("tock", tock(Begin(ws)), Null)

\* the endpoint leaves OPEN: the user closes or terminates it, or the socket
\* ends
ReadableClose ==
  /\ ~ws.tick /\ ws.readyState = OPEN
  /\ \E w1 \in {close(Begin(ws), NormalClosure, "", FALSE),
                terminate(Begin(ws), FALSE),
                cleanupWebsocketResources(Begin(ws), FALSE)} :
       Readable("close", w1, Null)

NextReadable ==
  ReadableSend \/ ReadableChunk \/ ReadableEnds \/ ReadableTock \/ ReadableClose

SpecReadable == InitSerial /\ [][NextReadable]_vars

\* C39: the callback given with a readable is called at most once, and when
\* the readable has ended it has been called once: by the 'end' event, with
\* an error if the endpoint is not OPEN and with no error if it is.
C39_ReadableCallbackOnce ==
  /\ hist.callbacks <= 1
  /\ last.op = "readableEnd"
       => /\ hist.callbacks = 1
          /\ ws.out[Len(ws.out)] = Callback(IF last.pre = OPEN THEN "ok" ELSE "error")

(***************************************************************************)
(* The end of a handshake that yields no connection                        *)
(***************************************************************************)
\* the handshake of a client that was CONNECTING has just ended without a
\* connection: the request failed, the server answered with another
\* response, or the client rejected the upgrade response
HandshakeFailed ==
  /\ last.pre = CONNECTING
  /\ \/ last.op \in {"reqError", "reqResponse"}
     \/ last.op = "reqUpgrade" /\ last.data /= Accept

\* C40: a client whose handshake ends without a connection becomes CLOSED
\* and emits `close`.
C40_FailedHandshakeCloses ==
  HandshakeFailed ~> (ws.readyState = CLOSED /\ ws.closeEmits >= 1)

====
